---- MODULE Spec2Model ----
(***************************************************************************)
(* Model of the Ellipsis LL(1) front end: the grammar declared in          *)
(* ll1Parser.ts, the fixed-point computation of FIRST and FOLLOW, the      *)
(* construction of the predictive table, the mapping of lexer tokens to    *)
(* grammar terminals, the table-driven parser (LL1Parser.parse) and the    *)
(* hand-written recursive-descent parser of parser.ts.                     *)
(***************************************************************************)
EXTENDS Naturals, Integers, Sequences, FiniteSets, TLC

VARIABLES
  gpc,        \* position of the grammar engines: "first", "follow", "table", "built"
  pidx,       \* index (1-based) of the production the current pass is at
  changed,    \* the `changed` flag of the running fixed-point loop
  first,      \* FIRST table: symbol name -> set of terminals / EPSILON
  follow,     \* FOLLOW table: non-terminal -> set of terminals
  table,      \* parse table: non-terminal -> (terminal -> production index)
  tokens,     \* LL1Parser.tokens
  index,      \* LL1Parser.index (0-based, as in the source)
  lookahead,  \* local `lookahead` of LL1Parser.parse
  stack,      \* local `stack` of LL1Parser.parse (top is the last element)
  status,     \* "idle", "lexing", "lexed", "running", "accepted" or "error"
  err,        \* the error thrown, NoError while none
  lexer,      \* the Lexer of runLL1: its fields src, i, line, col
  runs        \* LL1Parser objects built on one table: the fields and locals of each

vars == <<gpc, pidx, changed, first, follow, table,
          tokens, index, lookahead, stack, status, err, lexer, runs>>

gvars == <<gpc, pidx, changed, first, follow, table>>
pvars == <<tokens, index, lookahead, stack, status, err>>

(***************************************************************************)
(* Grammar (ll1Parser.ts)                                                  *)
(***************************************************************************)
\* the source spells the marker with the Greek letter
EPSILON == "epsilon"

NON_TERMINALS ==
  { "Program", "StmtList", "Stmt", "VarDecl", "VarKw", "VarInitOpt",
    "RecipeDecl", "ParamListOpt", "ParamList", "ParamListTail", "IfStmt",
    "IfElseOpt", "WhileStmt", "ReturnStmt", "ExprOpt", "Block", "AssignStmt",
    "Expr", "OrExpr", "OrExprTail", "AndExpr", "AndExprTail", "EqualityExpr",
    "EqualityExprTail", "RelExpr", "RelExprTail", "AddExpr", "AddExprTail",
    "MulExpr", "MulExprTail", "UnaryExpr", "Primary", "CallTail",
    "ArgListOpt", "ArgList", "ArgListTail" }

TERMINALS ==
  { "KW_put", "KW_take", "KW_recipe", "KW_if", "KW_else", "KW_meanwhile",
    "KW_return", "KW_true", "KW_false", "KW_empty",
    "ID", "NUMBER", "STRING",
    "LBRACE", "RBRACE", "LPAREN", "RPAREN", "SEMICOLON", "COMMA",
    "OP_ASSIGN", "OP_OR", "OP_AND", "OP_EQ", "OP_NE", "OP_LT", "OP_LE",
    "OP_GT", "OP_GE", "OP_PLUS", "OP_MINUS", "OP_STAR", "OP_SLASH",
    "OP_PERCENT", "OP_NOT",
    "$" }

START_SYMBOL == "Program"

P(h, b) == [head |-> h, body |-> b]

PRODUCTIONS ==
  << P("Program", <<"StmtList", "$">>),
     P("StmtList", <<"Stmt", "StmtList">>),
     P("StmtList", <<EPSILON>>),
     P("Stmt", <<"VarDecl">>),
     P("Stmt", <<"RecipeDecl">>),
     P("Stmt", <<"IfStmt">>),
     P("Stmt", <<"WhileStmt">>),
     P("Stmt", <<"ReturnStmt">>),
     P("Stmt", <<"Block">>),
     P("Stmt", <<"AssignStmt">>),
     P("VarDecl", <<"VarKw", "ID", "VarInitOpt", "SEMICOLON">>),
     P("VarKw", <<"KW_put">>),
     P("VarKw", <<"KW_take">>),
     P("VarInitOpt", <<"OP_ASSIGN", "Expr">>),
     P("VarInitOpt", <<EPSILON>>),
     P("AssignStmt", <<"ID", "OP_ASSIGN", "Expr", "SEMICOLON">>),
     P("RecipeDecl", <<"KW_recipe", "ID", "LPAREN", "ParamListOpt", "RPAREN", "Block">>),
     P("ParamListOpt", <<"ParamList">>),
     P("ParamListOpt", <<EPSILON>>),
     P("ParamList", <<"ID", "ParamListTail">>),
     P("ParamListTail", <<"COMMA", "ID", "ParamListTail">>),
     P("ParamListTail", <<EPSILON>>),
     P("IfStmt", <<"KW_if", "LPAREN", "Expr", "RPAREN", "Stmt", "IfElseOpt">>),
     P("IfElseOpt", <<"KW_else", "Stmt">>),
     P("IfElseOpt", <<EPSILON>>),
     P("WhileStmt", <<"KW_meanwhile", "LPAREN", "Expr", "RPAREN", "Stmt">>),
     P("ReturnStmt", <<"KW_return", "ExprOpt", "SEMICOLON">>),
     P("ExprOpt", <<"Expr">>),
     P("ExprOpt", <<EPSILON>>),
     P("Block", <<"LBRACE", "StmtList", "RBRACE">>),
     P("Expr", <<"OrExpr">>),
     P("OrExpr", <<"AndExpr", "OrExprTail">>),
     P("OrExprTail", <<"OP_OR", "AndExpr", "OrExprTail">>),
     P("OrExprTail", <<EPSILON>>),
     P("AndExpr", <<"EqualityExpr", "AndExprTail">>),
     P("AndExprTail", <<"OP_AND", "EqualityExpr", "AndExprTail">>),
     P("AndExprTail", <<EPSILON>>),
     P("EqualityExpr", <<"RelExpr", "EqualityExprTail">>),
     P("EqualityExprTail", <<"OP_EQ", "RelExpr", "EqualityExprTail">>),
     P("EqualityExprTail", <<"OP_NE", "RelExpr", "EqualityExprTail">>),
     P("EqualityExprTail", <<EPSILON>>),
     P("RelExpr", <<"AddExpr", "RelExprTail">>),
     P("RelExprTail", <<"OP_LT", "AddExpr", "RelExprTail">>),
     P("RelExprTail", <<"OP_LE", "AddExpr", "RelExprTail">>),
     P("RelExprTail", <<"OP_GT", "AddExpr", "RelExprTail">>),
     P("RelExprTail", <<"OP_GE", "AddExpr", "RelExprTail">>),
     P("RelExprTail", <<EPSILON>>),
     P("AddExpr", <<"MulExpr", "AddExprTail">>),
     P("AddExprTail", <<"OP_PLUS", "MulExpr", "AddExprTail">>),
     P("AddExprTail", <<"OP_MINUS", "MulExpr", "AddExprTail">>),
     P("AddExprTail", <<EPSILON>>),
     P("MulExpr", <<"UnaryExpr", "MulExprTail">>),
     P("MulExprTail", <<"OP_STAR", "UnaryExpr", "MulExprTail">>),
     P("MulExprTail", <<"OP_SLASH", "UnaryExpr", "MulExprTail">>),
     P("MulExprTail", <<"OP_PERCENT", "UnaryExpr", "MulExprTail">>),
     P("MulExprTail", <<EPSILON>>),
     P("UnaryExpr", <<"OP_NOT", "UnaryExpr">>),
     P("UnaryExpr", <<"OP_PLUS", "UnaryExpr">>),
     P("UnaryExpr", <<"OP_MINUS", "UnaryExpr">>),
     P("UnaryExpr", <<"Primary">>),
     P("Primary", <<"NUMBER">>),
     P("Primary", <<"STRING">>),
     P("Primary", <<"KW_true">>),
     P("Primary", <<"KW_false">>),
     P("Primary", <<"KW_empty">>),
     P("Primary", <<"ID", "CallTail">>),
     P("Primary", <<"LPAREN", "Expr", "RPAREN">>),
     P("CallTail", <<"LPAREN", "ArgListOpt", "RPAREN">>),
     P("CallTail", <<EPSILON>>),
     P("ArgListOpt", <<"ArgList">>),
     P("ArgListOpt", <<EPSILON>>),
     P("ArgList", <<"Expr", "ArgListTail">>),
     P("ArgListTail", <<"COMMA", "Expr", "ArgListTail">>),
     P("ArgListTail", <<EPSILON>>) >>

NumProds == Len(PRODUCTIONS)

(***************************************************************************)
(* FIRST (computeFirstSets)                                                *)
(***************************************************************************)
\* `first.get(symbol) || new Set()`
FirstGet(f, symbol) == IF symbol \in DOMAIN f THEN f[symbol] ELSE {}

\* The walk over a symbol sequence shared by the three engines: collects
\* FIRST(symbol) \ {EPSILON} of each symbol up to and including the first one
\* that cannot derive EPSILON; EPSILON is in the result iff the walk reached
\* the end of the sequence (canDeriveEpsilon stayed true).
RECURSIVE SeqFirst(_, _)
SeqFirst(f, body) ==
  IF body = <<>> THEN {EPSILON}
  ELSE LET firstSymbol == FirstGet(f, Head(body))
       IN  IF EPSILON \in firstSymbol
             THEN (firstSymbol \ {EPSILON}) \cup SeqFirst(f, Tail(body))
             ELSE firstSymbol

\* first table after the three initialisation loops
FirstInit ==
  [s \in TERMINALS \cup {EPSILON} \cup NON_TERMINALS |->
     IF s \in TERMINALS THEN {s}
     ELSE IF s = EPSILON THEN {EPSILON}
     ELSE {}]

\* FirstApply looking at the first body symbol only
FirstApplyFirstSymbolOnly(f, prod) ==
  [f EXCEPT ![prod.head] = f[prod.head] \cup FirstGet(f, Head(prod.body))]

\* FirstApply without the break at the first symbol that cannot derive
\* EPSILON: every body symbol contributes
FirstApplyIgnoreNullable(f, prod) ==
  [f EXCEPT ![prod.head] =
     f[prod.head]
       \cup (UNION { FirstGet(f, prod.body[i]) : i \in 1..Len(prod.body) }
               \ (IF SeqFirst(f, prod.body) = {EPSILON} THEN {} ELSE {EPSILON}))]

\* body of the `for (const { head, body } of PRODUCTIONS)` loop: the table
\* after production prod has been applied
FirstApply(f, prod) ==
  [f EXCEPT ![prod.head] = f[prod.head] \cup SeqFirst(f, prod.body)]

\* one full pass starting at production k; returns the table and the flag
RECURSIVE FirstPass(_, _, _)
FirstPass(f, ch, k) ==
  IF k > NumProds THEN [first |-> f, changed |-> ch]
  ELSE LET g == FirstApply(f, PRODUCTIONS[k])
       IN  IF g # f THEN FirstPass(g, TRUE, k + 1)
                    ELSE FirstPass(f, ch, k + 1)

RECURSIVE FirstLoop(_)
FirstLoop(f) ==
  LET r == FirstPass(f, FALSE, 1)
  IN  IF r.changed THEN FirstLoop(r.first) ELSE r.first

computeFirstSets == FirstLoop(FirstInit)

(***************************************************************************)
(* FOLLOW (computeFollowSets)                                              *)
(***************************************************************************)
FollowInit ==
  [nt \in NON_TERMINALS |-> IF nt = START_SYMBOL THEN {"$"} ELSE {}]

\* SubSeq(body, i+1, Len(body)): beta = body[i+1..]
Beta(body, i) == SubSeq(body, i + 1, Len(body))

\* FollowApplyFrom without the step FOLLOW(head) into FOLLOW(B)
RECURSIVE FollowApplyFromNoInherit(_, _, _, _)
FollowApplyFromNoInherit(fo, f, prod, i) ==
  IF i > Len(prod.body) THEN fo
  ELSE LET B == prod.body[i]
       IN  IF B \notin NON_TERMINALS
             THEN FollowApplyFromNoInherit(fo, f, prod, i + 1)
             ELSE LET fb == SeqFirst(f, Beta(prod.body, i))
                  IN  FollowApplyFromNoInherit(
                        [fo EXCEPT ![B] = fo[B] \cup (fb \ {EPSILON})],
                        f, prod, i + 1)

\* FollowApplyFrom without the step FIRST(beta) into FOLLOW(B)
RECURSIVE FollowApplyFromNoFirstBeta(_, _, _, _)
FollowApplyFromNoFirstBeta(fo, f, prod, i) ==
  IF i > Len(prod.body) THEN fo
  ELSE LET B == prod.body[i]
       IN  IF B \notin NON_TERMINALS
             THEN FollowApplyFromNoFirstBeta(fo, f, prod, i + 1)
             ELSE LET fb == SeqFirst(f, Beta(prod.body, i))
                  IN  FollowApplyFromNoFirstBeta(
                        [fo EXCEPT ![B] = IF EPSILON \in fb
                                            THEN fo[B] \cup fo[prod.head]
                                            ELSE fo[B]],
                        f, prod, i + 1)

\* the `for (let i = 0; ...)` loop over one production, from occurrence i on
RECURSIVE FollowApplyFrom(_, _, _, _)
FollowApplyFrom(fo, f, prod, i) ==
  IF i > Len(prod.body) THEN fo
  ELSE LET B == prod.body[i]
       IN  IF B \notin NON_TERMINALS
             THEN FollowApplyFrom(fo, f, prod, i + 1)
             ELSE LET fb   == SeqFirst(f, Beta(prod.body, i))
                      add1 == fo[B] \cup (fb \ {EPSILON})
                      add2 == IF EPSILON \in fb
                                THEN add1 \cup (IF B = prod.head THEN add1 ELSE fo[prod.head])
                                ELSE add1
                  IN  FollowApplyFrom([fo EXCEPT ![B] = add2], f, prod, i + 1)

FollowApply(fo, f, prod) == FollowApplyFrom(fo, f, prod, 1)

RECURSIVE FollowPass(_, _, _, _)
FollowPass(fo, f, ch, k) ==
  IF k > NumProds THEN [follow |-> fo, changed |-> ch]
  ELSE LET g == FollowApply(fo, f, PRODUCTIONS[k])
       IN  IF g # fo THEN FollowPass(g, f, TRUE, k + 1)
                     ELSE FollowPass(fo, f, ch, k + 1)

RECURSIVE FollowLoop(_, _)
FollowLoop(fo, f) ==
  LET r == FollowPass(fo, f, FALSE, 1)
  IN  IF r.changed THEN FollowLoop(r.follow, f) ELSE r.follow

computeFollowSets(f) == FollowLoop(FollowInit, f)

(***************************************************************************)
(* Parse table (buildParseTable)                                           *)
(***************************************************************************)
\* `table.set(nt, new Map())` for every non-terminal; a row is a function
\* whose domain is the set of terminals that have a cell
EmptyRow == [t \in {} |-> 0]
TableInit == [nt \in NON_TERMINALS |-> EmptyRow]

\* RowSet overwriting the cells already set (last writer wins)
RowSetLastWins(row, toks, k) ==
  [t \in DOMAIN row \cup toks |-> IF t \in toks THEN k ELSE row[t]]

\* `if (!row.has(tok)) row.set(tok, prod)` for every tok of toks
RowSet(row, toks, k) ==
  [t \in DOMAIN row \cup toks |-> IF t \in DOMAIN row THEN row[t] ELSE k]

\* TableApply without the cells an EPSILON-deriving body gets from FOLLOW
TableApplyNoFollow(tb, f, fo, k) ==
  LET prod == PRODUCTIONS[k]
  IN  IF prod.head \notin NON_TERMINALS THEN tb
      ELSE [tb EXCEPT ![prod.head] =
              [t \in DOMAIN tb[prod.head] \cup (SeqFirst(f, prod.body) \ {EPSILON}) |->
                 IF t \in DOMAIN tb[prod.head] THEN tb[prod.head][t] ELSE k]]

\* body of the `for (const prod of PRODUCTIONS)` loop for production k
TableApply(tb, f, fo, k) ==
  LET prod == PRODUCTIONS[k]
  IN  IF prod.head \notin NON_TERMINALS THEN tb
      ELSE LET firstBody == SeqFirst(f, prod.body)
               row1 == RowSet(tb[prod.head], firstBody \ {EPSILON}, k)
               row2 == IF EPSILON \in firstBody
                         THEN RowSet(row1, fo[prod.head], k)
                         ELSE row1
           IN  [tb EXCEPT ![prod.head] = row2]

RECURSIVE TableFrom(_, _, _, _)
TableFrom(tb, f, fo, k) ==
  IF k > NumProds THEN tb
  ELSE LET g == TableApply(tb, f, fo, k)
       IN  IF g # tb THEN TableFrom(g, f, fo, k + 1)
                     ELSE TableFrom(tb, f, fo, k + 1)

buildParseTable(f, fo) == TableFrom(TableInit, f, fo, 1)

\* the three tables runLL1 builds before it parses
FIRST_TABLE  == computeFirstSets
FOLLOW_TABLE == computeFollowSets(FIRST_TABLE)
PARSE_TABLE  == buildParseTable(FIRST_TABLE, FOLLOW_TABLE)

(***************************************************************************)
(* The grammar engines as a state machine: one step per production of a    *)
(* pass, one step per loop test, in the order runLL1 calls them.           *)
(***************************************************************************)
NoTable == [s \in {} |-> {}]

GInit ==
  /\ gpc = "first"
  /\ pidx = 1
  /\ changed = FALSE
  /\ first = FirstInit
  /\ follow = NoTable
  /\ table = NoTable

\* FirstStep that never sets the `changed` flag
FirstStepNoFlag ==
  /\ gpc = "first"
  /\ pidx <= NumProds
  /\ first' = FirstApply(first, PRODUCTIONS[pidx])
  /\ pidx' = pidx + 1
  /\ UNCHANGED <<gpc, changed, follow, table>>
  /\ UNCHANGED pvars
  /\ UNCHANGED lexer
  /\ UNCHANGED runs

FirstStep ==
  /\ gpc = "first"
  /\ pidx <= NumProds
  /\ first' = FirstApply(first, PRODUCTIONS[pidx])
  /\ changed' = (changed \/ first' # first)
  /\ pidx' = pidx + 1
  /\ UNCHANGED <<gpc, follow, table>>
  /\ UNCHANGED pvars
  /\ UNCHANGED lexer
  /\ UNCHANGED runs

\* FirstPassEnd leaving the loop after the first pass, whatever `changed` is
FirstPassEndOnce ==
  /\ gpc = "first"
  /\ pidx > NumProds
  /\ pidx' = 1
  /\ changed' = FALSE
  /\ gpc' = "follow"
  /\ follow' = FollowInit
  /\ UNCHANGED <<first, table>>
  /\ UNCHANGED pvars
  /\ UNCHANGED lexer
  /\ UNCHANGED runs

\* the `while (changed)` test of computeFirstSets; on exit computeFollowSets
\* starts with its own initialisation
FirstPassEnd ==
  /\ gpc = "first"
  /\ pidx > NumProds
  /\ pidx' = 1
  /\ changed' = FALSE
  /\ IF changed
       THEN UNCHANGED <<gpc, follow>>
       ELSE gpc' = "follow" /\ follow' = FollowInit
  /\ UNCHANGED <<first, table>>
  /\ UNCHANGED pvars
  /\ UNCHANGED lexer
  /\ UNCHANGED runs

FollowStep ==
  /\ gpc = "follow"
  /\ pidx <= NumProds
  /\ follow' = FollowApply(follow, first, PRODUCTIONS[pidx])
  /\ changed' = (changed \/ follow' # follow)
  /\ pidx' = pidx + 1
  /\ UNCHANGED <<gpc, first, table>>
  /\ UNCHANGED pvars
  /\ UNCHANGED lexer
  /\ UNCHANGED runs

FollowPassEnd ==
  /\ gpc = "follow"
  /\ pidx > NumProds
  /\ pidx' = 1
  /\ changed' = FALSE
  /\ IF changed
       THEN UNCHANGED <<gpc, table>>
       ELSE gpc' = "table" /\ table' = TableInit
  /\ UNCHANGED <<first, follow>>
  /\ UNCHANGED pvars
  /\ UNCHANGED lexer
  /\ UNCHANGED runs

TableStep ==
  /\ gpc = "table"
  /\ pidx <= NumProds
  /\ table' = TableApply(table, first, follow, pidx)
  /\ pidx' = pidx + 1
  /\ UNCHANGED <<gpc, changed, first, follow>>
  /\ UNCHANGED pvars
  /\ UNCHANGED lexer
  /\ UNCHANGED runs

TableEnd ==
  /\ gpc = "table"
  /\ pidx > NumProds
  /\ gpc' = "built"
  /\ UNCHANGED <<pidx, changed, first, follow, table>>
  /\ UNCHANGED pvars
  /\ UNCHANGED lexer
  /\ UNCHANGED runs

(***************************************************************************)
(* Tokens (lexer.ts) and the terminal mapper (tokenToTerminal)             *)
(***************************************************************************)
KEYWORDS ==
  { "if", "else", "meanwhile", "do", "for", "recipe", "return", "put",
    "take", "true", "false", "empty" }

OPERATORS ==
  { "===", "!==", "==", "!=", "<=", ">=", "&&", "||", "++", "--", "+", "-",
    "*", "/", "%", "<", ">", "=", "!" }

PUNCT == { "(", ")", "{", "}", "[", "]", ";", ",", "." }

Token(type, lexeme, line, column) ==
  [type |-> type, lexeme |-> lexeme, line |-> line, column |-> column]

\* a successful return of tokenToTerminal
Mapped(terminal) == [ok |-> TRUE, terminal |-> terminal]

\* syntaxError(t, message): `Syntax error at ${t.line}:${t.column}: ...`; the
\* message of every call in tokenToTerminal quotes t.lexeme
MapError(t, what) ==
  [ok |-> FALSE, kind |-> what, line |-> t.line, column |-> t.column,
   lexeme |-> t.lexeme]

KeywordTerminal(lexeme) ==
  CASE lexeme = "put"       -> "KW_put"
    [] lexeme = "take"      -> "KW_take"
    [] lexeme = "recipe"    -> "KW_recipe"
    [] lexeme = "if"        -> "KW_if"
    [] lexeme = "else"      -> "KW_else"
    [] lexeme = "meanwhile" -> "KW_meanwhile"
    [] lexeme = "return"    -> "KW_return"
    [] lexeme = "true"      -> "KW_true"
    [] lexeme = "false"     -> "KW_false"
    [] lexeme = "empty"     -> "KW_empty"
    [] OTHER                -> ""

PunctuationTerminal(lexeme) ==
  CASE lexeme = "{" -> "LBRACE"
    [] lexeme = "}" -> "RBRACE"
    [] lexeme = "(" -> "LPAREN"
    [] lexeme = ")" -> "RPAREN"
    [] lexeme = ";" -> "SEMICOLON"
    [] lexeme = "," -> "COMMA"
    [] OTHER        -> ""

\* OperatorTerminal without the cases of the strict comparison operators
OperatorTerminalNoStrict(lexeme) ==
  CASE lexeme = "="   -> "OP_ASSIGN"
    [] lexeme = "||"  -> "OP_OR"
    [] lexeme = "&&"  -> "OP_AND"
    [] lexeme = "=="  -> "OP_EQ"
    [] lexeme = "!="  -> "OP_NE"
    [] lexeme = "<"   -> "OP_LT"
    [] lexeme = "<="  -> "OP_LE"
    [] lexeme = ">"   -> "OP_GT"
    [] lexeme = ">="  -> "OP_GE"
    [] lexeme = "+"   -> "OP_PLUS"
    [] lexeme = "-"   -> "OP_MINUS"
    [] lexeme = "*"   -> "OP_STAR"
    [] lexeme = "/"   -> "OP_SLASH"
    [] lexeme = "%"   -> "OP_PERCENT"
    [] lexeme = "!"   -> "OP_NOT"
    [] OTHER          -> ""

OperatorTerminal(lexeme) ==
  CASE lexeme = "="                -> "OP_ASSIGN"
    [] lexeme = "||"               -> "OP_OR"
    [] lexeme = "&&"               -> "OP_AND"
    [] lexeme \in {"==", "==="}    -> "OP_EQ"
    [] lexeme \in {"!=", "!=="}    -> "OP_NE"
    [] lexeme = "<"                -> "OP_LT"
    [] lexeme = "<="               -> "OP_LE"
    [] lexeme = ">"                -> "OP_GT"
    [] lexeme = ">="               -> "OP_GE"
    [] lexeme = "+"                -> "OP_PLUS"
    [] lexeme = "-"                -> "OP_MINUS"
    [] lexeme = "*"                -> "OP_STAR"
    [] lexeme = "/"                -> "OP_SLASH"
    [] lexeme = "%"                -> "OP_PERCENT"
    [] lexeme = "!"                -> "OP_NOT"
    [] OTHER                       -> ""

\* Switch without its default case
SwitchNoDefault(t, terminal, what) == Mapped(terminal)

\* a switch that returns in its cases and throws in its default
Switch(t, terminal, what) ==
  IF terminal # "" THEN Mapped(terminal) ELSE MapError(t, what)

tokenToTerminal(t) ==
  IF t.type = "EOF" THEN Mapped("$")
  ELSE IF t.type = "Keyword"
    THEN Switch(t, KeywordTerminal(t.lexeme), "keyword")
  ELSE IF t.type = "Identifier" THEN Mapped("ID")
  ELSE IF t.type = "Number" THEN Mapped("NUMBER")
  ELSE IF t.type = "String" THEN Mapped("STRING")
  ELSE IF t.type = "Punctuation"
    THEN Switch(t, PunctuationTerminal(t.lexeme), "pontuacao")
  ELSE IF t.type = "Operator"
    THEN Switch(t, OperatorTerminal(t.lexeme), "operador")
  ELSE MapError(t, "token")

(***************************************************************************)
(* The lexer (class Lexer of lexer.ts).  A source is a sequence of          *)
(* characters, each a string of length one; a Lexer is a record of its     *)
(* fields src, i (0-based), line and col.                                  *)
(***************************************************************************)
LEGACY_TO_DIALECT ==
  [ let |-> "put", const |-> "take", function |-> "recipe",
    while |-> "meanwhile", null |-> "empty", var |-> "put" ]

FORBIDDEN_IDENTIFIERS == DOMAIN LEGACY_TO_DIALECT

Letters ==
  { "a", "b", "c", "d", "e", "f", "g", "h", "i", "j", "k", "l", "m", "n", "o",
    "p", "q", "r", "s", "t", "u", "v", "w", "x", "y", "z",
    "A", "B", "C", "D", "E", "F", "G", "H", "I", "J", "K", "L", "M", "N", "O",
    "P", "Q", "R", "S", "T", "U", "V", "W", "X", "Y", "Z" }
Digits == { "0", "1", "2", "3", "4", "5", "6", "7", "8", "9" }

isWhitespace(ch) == ch \in {" ", "\t", "\n", "\r"}
isDigit(ch) == ch \in Digits
isIdentifierStart(ch) == ch \in Letters \cup {"_"}
isIdentifierPart(ch) == ch \in Letters \cup Digits \cup {"_"}

\* the OPERATORS array in its order, every operator as its characters
OperatorList ==
  << <<"=", "=", "=">>, <<"!", "=", "=">>, <<"=", "=">>, <<"!", "=">>,
     <<"<", "=">>, <<">", "=">>, <<"&", "&">>, <<"|", "|">>, <<"+", "+">>,
     <<"-", "-">>, <<"+">>, <<"-">>, <<"*">>, <<"/">>, <<"%">>, <<"<">>,
     <<">">>, <<"=">>, <<"!">> >>

\* the string made of the characters cs
RECURSIVE Join(_)
Join(cs) == IF cs = <<>> THEN "" ELSE Head(cs) \o Join(Tail(cs))

NewLexer(source) == [src |-> source, i |-> 0, line |-> 1, col |-> 1]

\* this.src[this.i + n] ?? ''
LexerPeek(lx, n) ==
  IF lx.i + n < Len(lx.src) THEN lx.src[lx.i + n + 1] ELSE ""

\* Lexer.advance: the lexer after the call (the character is LexerPeek(lx, 0))
LexerAdvance(lx) ==
  IF LexerPeek(lx, 0) = "\n"
    THEN [lx EXCEPT !.i = @ + 1, !.line = @ + 1, !.col = 1]
    ELSE [lx EXCEPT !.i = @ + 1, !.col = @ + 1]

\* while (this.peek() && this.peek() !== '\n') this.advance()
RECURSIVE SkipLineComment(_)
SkipLineComment(lx) ==
  IF LexerPeek(lx, 0) # "" /\ LexerPeek(lx, 0) # "\n"
    THEN SkipLineComment(LexerAdvance(lx))
    ELSE lx

\* while (this.peek() && !(this.peek() === '*' && this.peek(1) === '/'))
RECURSIVE SkipBlockComment(_)
SkipBlockComment(lx) ==
  IF LexerPeek(lx, 0) # "" /\ ~(LexerPeek(lx, 0) = "*" /\ LexerPeek(lx, 1) = "/")
    THEN SkipBlockComment(LexerAdvance(lx))
    ELSE lx

RECURSIVE skipWhitespaceAndComments(_)
skipWhitespaceAndComments(lx) ==
  IF isWhitespace(LexerPeek(lx, 0))
    THEN skipWhitespaceAndComments(LexerAdvance(lx))
  ELSE IF LexerPeek(lx, 0) = "/" /\ LexerPeek(lx, 1) = "/"
    THEN skipWhitespaceAndComments(SkipLineComment(lx))
  ELSE IF LexerPeek(lx, 0) = "/" /\ LexerPeek(lx, 1) = "*"
    THEN LET body == SkipBlockComment(LexerAdvance(LexerAdvance(lx)))
         IN  skipWhitespaceAndComments(
               IF LexerPeek(body, 0) # ""
                 THEN LexerAdvance(LexerAdvance(body))
                 ELSE body)
  ELSE lx

\* the lexer after n calls of advance
RECURSIVE AdvanceBy(_, _)
AdvanceBy(lx, n) == IF n = 0 THEN lx ELSE AdvanceBy(LexerAdvance(lx), n - 1)

\* the operator at the cursor: op matches when peek(k) = op[k] for all k
OperatorMatches(lx, op) ==
  \A k \in 1..Len(op) : LexerPeek(lx, k - 1) = op[k]

\* matchLongestOperator: the index in OperatorList of the first operator
\* that matches, 0 for null
matchLongestOperator(lx) ==
  IF \E n \in 1..Len(OperatorList) : OperatorMatches(lx, OperatorList[n])
    THEN CHOOSE n \in 1..Len(OperatorList) :
           /\ OperatorMatches(lx, OperatorList[n])
           /\ \A m \in 1..(n - 1) : ~OperatorMatches(lx, OperatorList[m])
    ELSE 0

\* the loop of a string literal: the lexer at the closing quote or at the
\* end of the source, and the characters collected
RECURSIVE ScanString(_, _, _)
ScanString(lx, quote, str) ==
  IF LexerPeek(lx, 0) # "" /\ LexerPeek(lx, 0) # quote
    THEN IF LexerPeek(lx, 0) = "\\"
           THEN ScanString(LexerAdvance(LexerAdvance(lx)), quote,
                           str \o "\\" \o LexerPeek(lx, 1))
           ELSE ScanString(LexerAdvance(lx), quote, str \o LexerPeek(lx, 0))
    ELSE [lexer |-> lx, str |-> str]

\* while (isDigit(this.peek())) num += this.advance()
RECURSIVE ScanDigits(_, _)
ScanDigits(lx, num) ==
  IF isDigit(LexerPeek(lx, 0))
    THEN ScanDigits(LexerAdvance(lx), num \o LexerPeek(lx, 0))
    ELSE [lexer |-> lx, str |-> num]

\* while (isIdentifierPart(this.peek())) id += this.advance()
RECURSIVE ScanIdentifier(_, _)
ScanIdentifier(lx, id) ==
  IF isIdentifierPart(LexerPeek(lx, 0))
    THEN ScanIdentifier(LexerAdvance(lx), id \o LexerPeek(lx, 0))
    ELSE [lexer |-> lx, str |-> id]

\* a token returned by nextToken, with the lexer as the call leaves it
Lexed(lx, type, lexeme, line, column) ==
  [ok |-> TRUE, lexer |-> lx, token |-> Token(type, lexeme, line, column)]

\* `Lexical error at ${startLine}:${startCol}: '${id}' is not valid ...`
LexicalError(lx, id, line, column) ==
  [ok |-> FALSE, lexer |-> lx,
   error |-> [kind |-> "lexical", line |-> line, column |-> column,
              lexeme |-> id, hint |-> LEGACY_TO_DIALECT[id]]]

\* IdentifierOrKeyword without the test against FORBIDDEN_IDENTIFIERS
IdentifierOrKeywordNoForbidden(lx, id, line, column) ==
  IF id \in KEYWORDS THEN Lexed(lx, "Keyword", id, line, column)
  ELSE Lexed(lx, "Identifier", id, line, column)

\* the end of the identifier branch of nextToken
IdentifierOrKeyword(lx, id, line, column) ==
  IF id \in FORBIDDEN_IDENTIFIERS THEN LexicalError(lx, id, line, column)
  ELSE IF id \in KEYWORDS THEN Lexed(lx, "Keyword", id, line, column)
  ELSE Lexed(lx, "Identifier", id, line, column)

nextToken(lexer0) ==
  LET lx == skipWhitespaceAndComments(lexer0)
      ch == LexerPeek(lx, 0)
      startLine == lx.line
      startCol == lx.col
  IN  IF ch = "" THEN Lexed(lx, "EOF", "<EOF>", lx.line, lx.col)
      ELSE IF ch = "\"" \/ ch = "'"
        THEN LET s == ScanString(LexerAdvance(lx), ch, "")
                 after == IF LexerPeek(s.lexer, 0) = ch
                            THEN LexerAdvance(s.lexer) ELSE s.lexer
             IN  Lexed(after, "String", ch \o s.str \o ch, startLine, startCol)
      ELSE IF isDigit(ch)
        THEN LET int == ScanDigits(lx, "")
                 frac == IF LexerPeek(int.lexer, 0) = "."
                            /\ isDigit(LexerPeek(int.lexer, 1))
                           THEN ScanDigits(LexerAdvance(int.lexer), int.str \o ".")
                           ELSE int
             IN  Lexed(frac.lexer, "Number", frac.str, startLine, startCol)
      ELSE IF isIdentifierStart(ch)
        THEN LET w == ScanIdentifier(LexerAdvance(lx), ch)
             IN  IdentifierOrKeyword(w.lexer, w.str, startLine, startCol)
      ELSE IF matchLongestOperator(lx) # 0
        THEN LET op == OperatorList[matchLongestOperator(lx)]
             IN  Lexed(AdvanceBy(lx, Len(op)), "Operator", Join(op),
                       startLine, startCol)
      ELSE IF ch \in PUNCT
        THEN Lexed(LexerAdvance(lx), "Punctuation", ch, startLine, startCol)
      ELSE Lexed(LexerAdvance(lx), "Operator", ch, startLine, startCol)

(***************************************************************************)
(* The table-driven parser (class LL1Parser)                               *)
(***************************************************************************)
NoError == [kind |-> "none"]

\* SyntaxError with line and column exchanged
SyntaxErrorSwapped(t, what, X, a) ==
  [kind |-> what, line |-> t.column, column |-> t.line, X |-> X, a |-> a]

\* syntaxError(lookahead, message) thrown by parse
SyntaxError(t, what, X, a) ==
  [kind |-> what, line |-> t.line, column |-> t.column, X |-> X, a |-> a]

\* the error of tokenToTerminal, propagated through parse
Unmapped(e) ==
  [kind |-> "unmapped", line |-> e.line, column |-> e.column,
   lexeme |-> e.lexeme, what |-> e.kind]

\* this.tokens[this.index] ?? this.tokens[this.tokens.length - 1]
currentToken(toks, i) ==
  IF i < Len(toks) THEN toks[i + 1] ELSE toks[Len(toks)]

\* advance without the test against the length
advanceUnchecked(toks, i) == i + 1

\* advance that never moves the cursor
advanceNever(toks, i) == i

\* if (this.index < this.tokens.length) this.index++
advance(toks, i) == IF i < Len(toks) THEN i + 1 ELSE i

\* PushBody pushing the body from left to right
PushBodyForward(stk, body, i) ==
  stk \o SelectSeq(SubSeq(body, 1, i), LAMBDA sym : sym # EPSILON)

\* PushBody that pushes the Empty marker like any other symbol
PushBodyWithEpsilon(stk, body, i) ==
  stk \o [j \in 1..i |-> body[i + 1 - j]]

\* for (i = body.length - 1; i >= 0; i--) if (sym !== EPSILON) stack.push(sym)
RECURSIVE PushBody(_, _, _)
PushBody(stk, body, i) ==
  IF i < 1 THEN stk
  ELSE PushBody(IF body[i] # EPSILON THEN Append(stk, body[i]) ELSE stk,
                body, i - 1)

\* Pop that leaves the last symbol on the stack
PopKeepBottom(stk) == IF Len(stk) = 1 THEN stk ELSE SubSeq(stk, 1, Len(stk) - 1)

Top(stk) == stk[Len(stk)]
Pop(stk) == SubSeq(stk, 1, Len(stk) - 1)

\* ParseInit without the end marker at the bottom of the stack
ParseInitNoMarker(sources) ==
  /\ tokens \in sources
  /\ index = 0
  /\ lookahead = tokens[1]
  /\ stack = <<START_SYMBOL>>
  /\ status = "running"
  /\ err = NoError

\* ParseInit that maps every token before the loop starts
ParseInitEagerMapping(sources) ==
  /\ tokens \in sources
  /\ index = 0
  /\ lookahead = currentToken(tokens, 0)
  /\ stack = <<"$", START_SYMBOL>>
  /\ LET bad == { k \in 1..Len(tokens) : ~tokenToTerminal(tokens[k]).ok }
     IN  IF bad = {}
           THEN status = "running" /\ err = NoError
           ELSE /\ status = "error"
                /\ err = Unmapped(tokenToTerminal(
                            tokens[CHOOSE k \in bad : \A j \in bad : k <= j]))

\* state at the first test of `while (stack.length > 0)`
ParseInit(sources) ==
  /\ tokens \in sources
  /\ index = 0
  /\ lookahead = currentToken(tokens, 0)
  /\ stack = <<"$", START_SYMBOL>>
  /\ status = "running"
  /\ err = NoError

\* tokenToTerminal(lookahead) throws at the top of an iteration
MapFail ==
  /\ status = "running"
  /\ stack # <<>>
  /\ ~tokenToTerminal(lookahead).ok
  /\ stack' = Pop(stack)
  /\ status' = "error"
  /\ err' = Unmapped(tokenToTerminal(lookahead))
  /\ UNCHANGED <<tokens, index, lookahead>>
  /\ UNCHANGED gvars
  /\ UNCHANGED lexer
  /\ UNCHANGED runs

\* Caso 1, X === aTerminal
Match ==
  /\ status = "running"
  /\ stack # <<>>
  /\ tokenToTerminal(lookahead).ok
  /\ Top(stack) \in TERMINALS
  /\ Top(stack) = tokenToTerminal(lookahead).terminal
  /\ stack' = Pop(stack)
  /\ index' = advance(tokens, index)
  /\ lookahead' = currentToken(tokens, index')
  /\ UNCHANGED <<tokens, status, err>>
  /\ UNCHANGED gvars
  /\ UNCHANGED lexer
  /\ UNCHANGED runs

\* Mismatch that skips the offending token and goes on
MismatchSkipsToken ==
  /\ status = "running"
  /\ stack # <<>>
  /\ tokenToTerminal(lookahead).ok
  /\ Top(stack) \in TERMINALS
  /\ Top(stack) # tokenToTerminal(lookahead).terminal
  /\ stack' = Pop(stack)
  /\ index' = advance(tokens, index)
  /\ lookahead' = currentToken(tokens, index')
  /\ UNCHANGED <<tokens, status, err>>
  /\ UNCHANGED gvars
  /\ UNCHANGED lexer
  /\ UNCHANGED runs

\* Caso 1, X !== aTerminal
Mismatch ==
  /\ status = "running"
  /\ stack # <<>>
  /\ tokenToTerminal(lookahead).ok
  /\ Top(stack) \in TERMINALS
  /\ Top(stack) # tokenToTerminal(lookahead).terminal
  /\ stack' = Pop(stack)
  /\ status' = "error"
  /\ err' = SyntaxError(lookahead, "esperado terminal", Top(stack),
                        tokenToTerminal(lookahead).terminal)
  /\ UNCHANGED <<tokens, index, lookahead>>
  /\ UNCHANGED gvars
  /\ UNCHANGED lexer
  /\ UNCHANGED runs

\* Caso 2 (X is EPSILON: continue) and Caso 3 with a production in the table
Expand ==
  /\ status = "running"
  /\ stack # <<>>
  /\ tokenToTerminal(lookahead).ok
  /\ Top(stack) \notin TERMINALS
  /\ LET X == Top(stack)
         a == tokenToTerminal(lookahead).terminal
     IN  IF X = EPSILON
           THEN stack' = Pop(stack)
           ELSE /\ X \in DOMAIN table
                /\ a \in DOMAIN table[X]
                /\ stack' = PushBody(Pop(stack),
                                     PRODUCTIONS[table[X][a]].body,
                                     Len(PRODUCTIONS[table[X][a]].body))
  /\ UNCHANGED <<tokens, index, lookahead, status, err>>
  /\ UNCHANGED gvars
  /\ UNCHANGED lexer
  /\ UNCHANGED runs

\* Caso 3 without a row or without a production
NoProduction ==
  /\ status = "running"
  /\ stack # <<>>
  /\ tokenToTerminal(lookahead).ok
  /\ Top(stack) \notin TERMINALS
  /\ Top(stack) # EPSILON
  /\ LET X == Top(stack)
         a == tokenToTerminal(lookahead).terminal
     IN  /\ ~(X \in DOMAIN table /\ a \in DOMAIN table[X])
         /\ err' = SyntaxError(lookahead,
                     IF X \in DOMAIN table THEN "nao existe producao"
                                           ELSE "nao existe linha", X, a)
  /\ stack' = Pop(stack)
  /\ status' = "error"
  /\ UNCHANGED <<tokens, index, lookahead>>
  /\ UNCHANGED gvars
  /\ UNCHANGED lexer
  /\ UNCHANGED runs

\* after the loop: the input must be at EOF
Finish ==
  /\ status = "running"
  /\ stack = <<>>
  /\ LET finalTerm == tokenToTerminal(lookahead)
     IN  IF ~finalTerm.ok
           THEN status' = "error" /\ err' = Unmapped(finalTerm)
         ELSE IF finalTerm.terminal # "$"
           THEN /\ status' = "error"
                /\ err' = SyntaxError(lookahead, "entrada nao consumida",
                                      "", finalTerm.terminal)
         ELSE status' = "accepted" /\ err' = NoError
  /\ UNCHANGED <<tokens, index, lookahead, stack>>
  /\ UNCHANGED gvars
  /\ UNCHANGED lexer
  /\ UNCHANGED runs

(***************************************************************************)
(* The same parser as a function of its own state: an LL1Parser object is  *)
(* a record of its fields and of the locals of parse, the table is the one *)
(* it was constructed with.                                                *)
(***************************************************************************)
\* new LL1Parser(toks, table), at the first test of the loop of parse
NewParserObject(toks) ==
  [tokens |-> toks, index |-> 0, lookahead |-> currentToken(toks, 0),
   stack |-> <<"$", START_SYMBOL>>, status |-> "running", err |-> NoError]

\* the object after a throw of parse
Thrown(r, stk, e) == [r EXCEPT !.stack = stk, !.status = "error", !.err = e]

\* one iteration of the loop of parse, or the final test once the stack is
\* empty; tb is this.table, which parse only reads
ParseStep(r, tb) ==
  LET m == tokenToTerminal(r.lookahead)
  IN  IF r.stack = <<>>
        THEN IF ~m.ok THEN Thrown(r, r.stack, Unmapped(m))
             ELSE IF m.terminal # "$"
               THEN Thrown(r, r.stack,
                           SyntaxError(r.lookahead, "entrada nao consumida",
                                       "", m.terminal))
             ELSE [r EXCEPT !.status = "accepted"]
      ELSE LET X   == Top(r.stack)
               stk == Pop(r.stack)
           IN  IF ~m.ok THEN Thrown(r, stk, Unmapped(m))
               ELSE IF X \in TERMINALS
                 THEN IF X = m.terminal
                        THEN LET i == advance(r.tokens, r.index)
                             IN  [r EXCEPT !.stack = stk, !.index = i,
                                           !.lookahead = currentToken(r.tokens, i)]
                        ELSE Thrown(r, stk,
                                    SyntaxError(r.lookahead, "esperado terminal",
                                                X, m.terminal))
               ELSE IF X = EPSILON THEN [r EXCEPT !.stack = stk]
               ELSE IF X \notin DOMAIN tb
                 THEN Thrown(r, stk,
                             SyntaxError(r.lookahead, "nao existe linha",
                                         X, m.terminal))
               ELSE IF m.terminal \notin DOMAIN tb[X]
                 THEN Thrown(r, stk,
                             SyntaxError(r.lookahead, "nao existe producao",
                                         X, m.terminal))
               ELSE LET body == PRODUCTIONS[tb[X][m.terminal]].body
                    IN  [r EXCEPT !.stack = PushBody(stk, body, Len(body))]

\* parse from an object's state to its return or throw
RECURSIVE ParseFrom(_, _)
ParseFrom(r, tb) ==
  IF r.status # "running" THEN r
  ELSE LET s == ParseStep(r, tb)
       IN  IF s.status = "running" THEN ParseFrom(s, tb) ELSE s

\* new LL1Parser(toks, tb).parse()
parse(toks, tb) == ParseFrom(NewParserObject(toks), tb)

(***************************************************************************)
(* Inputs: token sequences as Lexer.tokenize returns them                  *)
(***************************************************************************)
\* longest token sequence (EOF not counted) that is enumerated exhaustively
MaxLen == 2

\* the class Lexer.nextToken gives a lexeme
LexemeType(lexeme) ==
  IF lexeme \in KEYWORDS THEN "Keyword"
  ELSE IF lexeme \in OPERATORS \cup {"@"} THEN "Operator"
  ELSE IF lexeme \in PUNCT THEN "Punctuation"
  ELSE IF lexeme \in {"0", "1", "2", "5"} THEN "Number"
  ELSE IF lexeme = "'s'" THEN "String"
  ELSE "Identifier"

\* one lexeme of every kind of token the lexer produces: every keyword,
\* operator and punctuation mark, an unknown character (lexed as Operator),
\* an identifier, a number and a string
Lexemes == KEYWORDS \cup OPERATORS \cup {"@"} \cup PUNCT \cup {"x", "1", "'s'"}

\* the token array of a source whose lexemes are lx: the k-th token sits at
\* line 1, column k, and the EOF token comes last
Tokenize(lx) ==
  [k \in 1..(Len(lx) + 1) |->
     IF k <= Len(lx) THEN Token(LexemeType(lx[k]), lx[k], 1, k)
                     ELSE Token("EOF", "<EOF>", 1, k)]

ShortSources == UNION { [1..n -> Lexemes] : n \in 0..MaxLen }

Seeds ==
  { <<"recipe", "soma", "(", "a", ",", "b", ")", "{", "put", "s", "=", "a",
      "+", "b", ";", "return", "s", ";", "}">>,
    <<"put", "x", "=", "5">>,
    <<"if", "(", "x", ")", "{", "return", "x", ";", "}", "else", "{",
      "return", "0", ";", "}">>,
    <<"if", "(", "x", ")", "if", "(", "y", ")", "x", "=", "1", ";", "else",
      "x", "=", "2", ";">>,
    <<"meanwhile", "(", "x", "<", "1", ")", "x", "=", "x", "*", "2", ";">>,
    <<"f", "(", "1", ",", "x", ")", ";">>,
    <<"1", ";">>,
    <<"return", "x">> }

\* a seed with one lexeme replaced or one lexeme removed
Substitute(lx, k, l) == [lx EXCEPT ![k] = l]
Delete(lx, k) == SubSeq(lx, 1, k - 1) \o SubSeq(lx, k + 1, Len(lx))

SeedEdits ==
  Seeds
  \cup UNION { { Substitute(lx, k, l) : k \in 1..Len(lx), l \in Lexemes } : lx \in Seeds }
  \cup UNION { { Delete(lx, k) : k \in 1..Len(lx) } : lx \in Seeds }

Sources == ShortSources \cup SeedEdits

(***************************************************************************)
(* Specifications                                                          *)
(***************************************************************************)
\* runLL1 after tokenize and the three engines: the parser runs on the tokens
Init ==
  /\ gpc = "built"
  /\ pidx = NumProds + 1
  /\ changed = FALSE
  /\ first = FIRST_TABLE
  /\ follow = FOLLOW_TABLE
  /\ table = PARSE_TABLE
  /\ ParseInit({ Tokenize(lx) : lx \in Sources })
  /\ lexer = NewLexer(<<>>)
  /\ runs = <<>>

Next == MapFail \/ Match \/ Mismatch \/ Expand \/ NoProduction \/ Finish

Spec == Init /\ [][Next]_vars

\* parse is a loop that runs to its end: a step that can be taken is taken
FairSpec == Spec /\ WF_vars(Next)

\* the engines, from the first pass of computeFirstSets to the built table
InitGrammar ==
  /\ GInit
  /\ tokens = <<>>
  /\ index = 0
  /\ lookahead = Token("EOF", "<EOF>", 1, 1)
  /\ stack = <<>>
  /\ status = "idle"
  /\ err = NoError
  /\ lexer = NewLexer(<<>>)
  /\ runs = <<>>

NextGrammar ==
  FirstStep \/ FirstPassEnd \/ FollowStep \/ FollowPassEnd \/ TableStep \/ TableEnd

SpecGrammar == InitGrammar /\ [][NextGrammar]_vars

\* the loops of the engines run to their end
FairSpecGrammar == SpecGrammar /\ WF_vars(NextGrammar)

(***************************************************************************)
(* runLL1 from the source text: tokenize, the three engines, the parser    *)
(***************************************************************************)
\* most pieces a source text of the model is made of
MaxPieces == 3

\* the pieces: the six legacy words, an identifier, a digit, white space,
\* the characters that open strings and comments, an operator and an
\* unknown character
Pieces ==
  { <<"l", "e", "t">>, <<"c", "o", "n", "s", "t">>, <<"v", "a", "r">>,
    <<"f", "u", "n", "c", "t", "i", "o", "n">>, <<"w", "h", "i", "l", "e">>,
    <<"n", "u", "l", "l">>,
    <<"x">>, <<"1">>, <<" ">>, <<"\"">>, <<"/">>, <<"*">>, <<"=">>, <<"@">> }

RECURSIVE Concat(_)
Concat(ps) == IF ps = <<>> THEN <<>> ELSE Head(ps) \o Concat(Tail(ps))

SourceTexts == { Concat(ps) : ps \in UNION { [1..n -> Pieces] : n \in 0..MaxPieces } }

\* const lexer = new Lexer(source), at the first call of nextToken
InitRunLL1 ==
  /\ lexer \in { NewLexer(source) : source \in SourceTexts }
  /\ runs = <<>>
  /\ tokens = <<>>
  /\ status = "lexing"
  /\ err = NoError
  /\ gpc = "idle"
  /\ pidx = 1
  /\ changed = FALSE
  /\ first = NoTable
  /\ follow = NoTable
  /\ table = NoTable
  /\ index = 0
  /\ lookahead = Token("EOF", "<EOF>", 1, 1)
  /\ stack = <<>>

\* LexToken without `if (t.type === TokenType.EOF) break`
LexTokenNoBreak ==
  /\ status = "lexing"
  /\ nextToken(lexer).ok
  /\ tokens' = Append(tokens, nextToken(lexer).token)
  /\ lexer' = nextToken(lexer).lexer
  /\ UNCHANGED runs
  /\ UNCHANGED <<index, lookahead, stack, err, status>>
  /\ UNCHANGED gvars

\* one round of the loop of tokenize: nextToken returns, the token is pushed
LexToken ==
  /\ status = "lexing"
  /\ nextToken(lexer).ok
  /\ tokens' = Append(tokens, nextToken(lexer).token)
  /\ lexer' = nextToken(lexer).lexer
  /\ UNCHANGED runs
  /\ status' = IF nextToken(lexer).token.type = "EOF" THEN "lexed" ELSE "lexing"
  /\ UNCHANGED <<index, lookahead, stack, err>>
  /\ UNCHANGED gvars

\* nextToken throws: tokenize and runLL1 end with the error
LexFail ==
  /\ status = "lexing"
  /\ ~nextToken(lexer).ok
  /\ lexer' = nextToken(lexer).lexer
  /\ UNCHANGED runs
  /\ status' = "error"
  /\ err' = nextToken(lexer).error
  /\ UNCHANGED <<tokens, index, lookahead, stack>>
  /\ UNCHANGED gvars

\* const first = computeFirstSets()
CallComputeFirstSets ==
  /\ status = "lexed"
  /\ gpc = "idle"
  /\ first' = computeFirstSets
  /\ gpc' = "follow"
  /\ UNCHANGED <<pidx, changed, follow, table>>
  /\ UNCHANGED pvars
  /\ UNCHANGED lexer
  /\ UNCHANGED runs

\* const follow = computeFollowSets(first); the result for the FIRST table of
\* the grammar is FOLLOW_TABLE
CallComputeFollowSets ==
  /\ status = "lexed"
  /\ gpc = "follow"
  /\ follow' = IF first = FIRST_TABLE THEN FOLLOW_TABLE
                                      ELSE computeFollowSets(first)
  /\ gpc' = "table"
  /\ UNCHANGED <<pidx, changed, first, table>>
  /\ UNCHANGED pvars
  /\ UNCHANGED lexer
  /\ UNCHANGED runs

\* const table = buildParseTable(first, follow); the result for the FIRST
\* and FOLLOW tables of the grammar is PARSE_TABLE
CallBuildParseTable ==
  /\ status = "lexed"
  /\ gpc = "table"
  /\ table' = IF first = FIRST_TABLE /\ follow = FOLLOW_TABLE
                 THEN PARSE_TABLE
                 ELSE buildParseTable(first, follow)
  /\ gpc' = "built"
  /\ UNCHANGED <<pidx, changed, first, follow>>
  /\ UNCHANGED pvars
  /\ UNCHANGED lexer
  /\ UNCHANGED runs

\* new LL1Parser(tokens, table) and the entry of parse
NewParser ==
  /\ status = "lexed"
  /\ gpc = "built"
  /\ index' = 0
  /\ lookahead' = currentToken(tokens, 0)
  /\ stack' = <<"$", START_SYMBOL>>
  /\ status' = "running"
  /\ UNCHANGED <<tokens, err>>
  /\ UNCHANGED gvars
  /\ UNCHANGED lexer
  /\ UNCHANGED runs

NextRunLL1 ==
  \/ LexToken \/ LexFail
  \/ CallComputeFirstSets \/ CallComputeFollowSets \/ CallBuildParseTable
  \/ NewParser
  \/ MapFail \/ Match \/ Mismatch \/ Expand \/ NoProduction \/ Finish

SpecRunLL1 == InitRunLL1 /\ [][NextRunLL1]_vars

(***************************************************************************)
(* The recursive-descent parser (class Parser of parser.ts).  Every parse  *)
(* method is an operator from the token array and the cursor i (0-based)   *)
(* to a result: the cursor after the construct and the kind of the node    *)
(* built, or Fail where the method throws.                                 *)
(***************************************************************************)
Fail == [ok |-> FALSE, i |-> 0, kind |-> "error"]
R(i, kind) == [ok |-> TRUE, i |-> i, kind |-> kind]

\* this.tokens[this.i] ?? this.tokens[this.tokens.length - 1]
peek(toks, i) == IF i < Len(toks) THEN toks[i + 1] ELSE toks[Len(toks)]
atEnd(toks, i) == peek(toks, i).type = "EOF"

Is(t, type, lexeme) == t.type = type /\ t.lexeme = lexeme
IsOneOf(t, type, lexemes) == t.type = type /\ t.lexeme \in lexemes

\* expect(type) and expect(type, lexeme): the cursor after the token, or Fail
expectType(toks, i, type) ==
  IF peek(toks, i).type # type THEN Fail ELSE R(i + 1, "token")
expect(toks, i, type, lexeme) ==
  IF peek(toks, i).type # type THEN Fail
  ELSE IF peek(toks, i).lexeme # lexeme THEN Fail
  ELSE R(i + 1, "token")

firstOfExpression(t) ==
  \/ t.type = "Number" \/ t.type = "String"
  \/ t.type = "Identifier"
  \/ Is(t, "Punctuation", "(")
  \/ IsOneOf(t, "Operator", {"!", "+", "-"})
  \/ IsOneOf(t, "Keyword", {"true", "false", "empty"})

firstOfStatement(t) ==
  \/ IsOneOf(t, "Keyword", {"put", "take", "recipe", "if", "else",
                            "meanwhile", "do", "for", "return"})
  \/ Is(t, "Punctuation", "{")
  \/ firstOfExpression(t)

LEGACY_DECL_IDENTIFIERS == {"let", "const", "var"}

\* the operators of the six binary levels, loosest first
BinaryOps(lvl) ==
  CASE lvl = 1 -> {"||"}
    [] lvl = 2 -> {"&&"}
    [] lvl = 3 -> {"==", "!=", "===", "!=="}
    [] lvl = 4 -> {"<", ">", "<=", ">="}
    [] lvl = 5 -> {"+", "-"}
    [] lvl = 6 -> {"*", "/", "%"}

RECURSIVE parseStatement(_, _), statementsUntil(_, _, _), parseBlock(_, _),
          parseVarDecl(_, _, _), paramsFrom(_, _), parseRecipeDecl(_, _),
          parseIf(_, _), parseWhile(_, _), parseDoWhile(_, _),
          parseFor(_, _), parseReturn(_, _), parseExpression(_, _),
          parseAssignment(_, _), parseBinary(_, _, _), binaryTail(_, _, _),
          parseUnary(_, _), argsFrom(_, _), parsePrimary(_, _)

\* r, then f applied to the cursor r leaves, unless r failed
Then(r, f(_)) == IF r.ok THEN f(r.i) ELSE Fail

\* parseExpression followed by a mandatory ';'
exprThenSemicolon(toks, i, kind) ==
  LET e == parseExpression(toks, i)
  IN  IF ~e.ok THEN Fail
      ELSE IF Is(peek(toks, e.i), "Punctuation", ";") THEN R(e.i + 1, kind)
      ELSE Fail

parseStatement(toks, i) ==
  LET t == peek(toks, i)
  IN  IF IsOneOf(t, "Keyword", {"put", "take"}) THEN parseVarDecl(toks, i, TRUE)
      ELSE IF Is(t, "Keyword", "recipe") THEN parseRecipeDecl(toks, i)
      ELSE IF Is(t, "Keyword", "if") THEN parseIf(toks, i)
      ELSE IF Is(t, "Keyword", "meanwhile") THEN parseWhile(toks, i)
      ELSE IF Is(t, "Keyword", "do") THEN parseDoWhile(toks, i)
      ELSE IF Is(t, "Keyword", "for") THEN parseFor(toks, i)
      ELSE IF Is(t, "Keyword", "return") THEN parseReturn(toks, i)
      ELSE IF Is(t, "Punctuation", "{") THEN parseBlock(toks, i)
      ELSE IF IsOneOf(t, "Identifier", LEGACY_DECL_IDENTIFIERS) THEN Fail
      ELSE IF ~firstOfExpression(t) THEN Fail
      ELSE exprThenSemicolon(toks, i, "ExprStmt")

\* while (!atEnd() && !(peek is close)) parseStatement(); close is "" in
\* parseProgram, whose loop stops at the end only
statementsUntil(toks, i, close) ==
  IF atEnd(toks, i) \/ Is(peek(toks, i), "Punctuation", close) THEN R(i, "body")
  ELSE IF close = "" /\ ~firstOfStatement(peek(toks, i)) THEN Fail
  ELSE LET st == parseStatement(toks, i)
       IN  IF st.ok THEN statementsUntil(toks, st.i, close) ELSE Fail

parseProgram(toks) == statementsUntil(toks, 0, "")

parseBlock(toks, i) ==
  LET open == expect(toks, i, "Punctuation", "{")
  IN  IF ~open.ok THEN Fail
      ELSE LET body == statementsUntil(toks, open.i, "}")
           IN  IF ~body.ok THEN Fail
               ELSE IF atEnd(toks, body.i) THEN Fail
               ELSE LET close == expect(toks, body.i, "Punctuation", "}")
                    IN  IF close.ok THEN R(close.i, "Block") ELSE Fail

parseVarDecl(toks, i, needsSemicolon) ==
  IF ~IsOneOf(peek(toks, i), "Keyword", {"put", "take"}) THEN Fail
  ELSE LET idTok == expectType(toks, i + 1, "Identifier")
       IN  IF ~idTok.ok THEN Fail
           ELSE LET init == IF Is(peek(toks, idTok.i), "Operator", "=")
                              THEN parseExpression(toks, idTok.i + 1)
                              ELSE R(idTok.i, "none")
                IN  IF ~init.ok THEN Fail
                    ELSE IF ~needsSemicolon THEN R(init.i, "VarDecl")
                    ELSE IF Is(peek(toks, init.i), "Punctuation", ";")
                      THEN R(init.i + 1, "VarDecl")
                    ELSE Fail

\* do { expect Identifier; if (peek is ',') advance; else break } while (true)
paramsFrom(toks, i) ==
  LET idTok == expectType(toks, i, "Identifier")
  IN  IF ~idTok.ok THEN Fail
      ELSE IF Is(peek(toks, idTok.i), "Punctuation", ",")
        THEN paramsFrom(toks, idTok.i + 1)
      ELSE R(idTok.i, "params")

parseRecipeDecl(toks, i) ==
  LET k == expect(toks, i, "Keyword", "recipe")
      nameTok == Then(k, LAMBDA j : expectType(toks, j, "Identifier"))
      open == Then(nameTok, LAMBDA j : expect(toks, j, "Punctuation", "("))
      params == Then(open, LAMBDA j :
                  IF Is(peek(toks, j), "Punctuation", ")")
                    THEN R(j, "params") ELSE paramsFrom(toks, j))
      close == Then(params, LAMBDA j : expect(toks, j, "Punctuation", ")"))
      body == Then(close, LAMBDA j : parseBlock(toks, j))
  IN  IF body.ok THEN R(body.i, "FunctionDecl") ELSE Fail

\* expect '(' ; parseExpression ; expect ')'
parenthesized(toks, i) ==
  LET open == expect(toks, i, "Punctuation", "(")
      test == Then(open, LAMBDA j : parseExpression(toks, j))
  IN  Then(test, LAMBDA j : expect(toks, j, "Punctuation", ")"))

parseIf(toks, i) ==
  LET k == expect(toks, i, "Keyword", "if")
      test == Then(k, LAMBDA j : parenthesized(toks, j))
      consequent == Then(test, LAMBDA j : parseStatement(toks, j))
  IN  IF ~consequent.ok THEN Fail
      ELSE IF Is(peek(toks, consequent.i), "Keyword", "else")
        THEN LET alt == parseStatement(toks, consequent.i + 1)
             IN  IF alt.ok THEN R(alt.i, "If") ELSE Fail
      ELSE R(consequent.i, "If")

parseWhile(toks, i) ==
  LET k == expect(toks, i, "Keyword", "meanwhile")
      test == Then(k, LAMBDA j : parenthesized(toks, j))
      bodyStmt == Then(test, LAMBDA j : parseStatement(toks, j))
  IN  IF bodyStmt.ok THEN R(bodyStmt.i, "While") ELSE Fail

parseDoWhile(toks, i) ==
  LET k == expect(toks, i, "Keyword", "do")
      bodyStmt == Then(k, LAMBDA j : parseStatement(toks, j))
      w == Then(bodyStmt, LAMBDA j : expect(toks, j, "Keyword", "meanwhile"))
      test == Then(w, LAMBDA j : parenthesized(toks, j))
  IN  IF ~test.ok THEN Fail
      ELSE IF Is(peek(toks, test.i), "Punctuation", ";")
        THEN R(test.i + 1, "DoWhile")
      ELSE R(test.i, "DoWhile")

parseFor(toks, i) ==
  LET k == expect(toks, i, "Keyword", "for")
      open == Then(k, LAMBDA j : expect(toks, j, "Punctuation", "("))
      init == Then(open, LAMBDA j :
                IF Is(peek(toks, j), "Punctuation", ";") THEN R(j + 1, "none")
                ELSE IF IsOneOf(peek(toks, j), "Keyword", {"put", "take"})
                  THEN parseVarDecl(toks, j, FALSE)
                ELSE IF IsOneOf(peek(toks, j), "Identifier",
                                LEGACY_DECL_IDENTIFIERS) THEN Fail
                ELSE IF ~firstOfExpression(peek(toks, j)) THEN Fail
                ELSE exprThenSemicolon(toks, j, "ExprStmt"))
      test == Then(init, LAMBDA j :
                IF Is(peek(toks, j), "Punctuation", ";") THEN R(j, "none")
                ELSE parseExpression(toks, j))
      semi == Then(test, LAMBDA j : expect(toks, j, "Punctuation", ";"))
      update == Then(semi, LAMBDA j :
                  IF Is(peek(toks, j), "Punctuation", ")") THEN R(j, "none")
                  ELSE parseExpression(toks, j))
      close == Then(update, LAMBDA j : expect(toks, j, "Punctuation", ")"))
      bodyStmt == Then(close, LAMBDA j : parseStatement(toks, j))
  IN  IF bodyStmt.ok THEN R(bodyStmt.i, "For") ELSE Fail

parseReturn(toks, i) ==
  LET k == expect(toks, i, "Keyword", "return")
      argument == Then(k, LAMBDA j :
                    IF Is(peek(toks, j), "Punctuation", ";") THEN R(j, "none")
                    ELSE parseExpression(toks, j))
  IN  IF ~argument.ok THEN Fail
      ELSE IF Is(peek(toks, argument.i), "Punctuation", ";")
        THEN R(argument.i + 1, "Return")
      ELSE R(argument.i, "Return")

parseExpression(toks, i) == parseAssignment(toks, i)

parseAssignment(toks, i) ==
  LET expr == parseBinary(toks, i, 1)
  IN  IF ~expr.ok THEN Fail
      ELSE IF Is(peek(toks, expr.i), "Operator", "=")
        THEN IF expr.kind # "Identifier" THEN Fail
             ELSE LET value == parseAssignment(toks, expr.i + 1)
                  IN  IF value.ok THEN R(value.i, "Assignment") ELSE Fail
      ELSE expr

\* parseLogicalOr (lvl 1) ... parseMultiplicative (lvl 6): the operand of a
\* level is the next level, the operand of the last is parseUnary
parseBinary(toks, i, lvl) ==
  LET left == IF lvl = 6 THEN parseUnary(toks, i)
                         ELSE parseBinary(toks, i, lvl + 1)
  IN  IF ~left.ok THEN Fail
      ELSE IF IsOneOf(peek(toks, left.i), "Operator", BinaryOps(lvl))
        THEN binaryTail(toks, left.i, lvl)
      ELSE left

\* the `while (peek is an operator of the level)` loop, at an operator
binaryTail(toks, i, lvl) ==
  LET right == IF lvl = 6 THEN parseUnary(toks, i + 1)
                          ELSE parseBinary(toks, i + 1, lvl + 1)
  IN  IF ~right.ok THEN Fail
      ELSE IF IsOneOf(peek(toks, right.i), "Operator", BinaryOps(lvl))
        THEN binaryTail(toks, right.i, lvl)
      ELSE R(right.i, "Binary")

parseLogicalOr(toks, i) == parseBinary(toks, i, 1)

parseUnary(toks, i) ==
  IF IsOneOf(peek(toks, i), "Operator", {"!", "+", "-"})
    THEN LET argument == parseUnary(toks, i + 1)
         IN  IF argument.ok THEN R(argument.i, "Unary") ELSE Fail
    ELSE parsePrimary(toks, i)

\* do { parseExpression; if (peek is ',') advance; else break } while (true)
argsFrom(toks, i) ==
  LET arg == parseExpression(toks, i)
  IN  IF ~arg.ok THEN Fail
      ELSE IF Is(peek(toks, arg.i), "Punctuation", ",")
        THEN argsFrom(toks, arg.i + 1)
      ELSE R(arg.i, "args")

parsePrimary(toks, i) ==
  LET t == peek(toks, i)
  IN  IF t.type = "Number" \/ t.type = "String" THEN R(i + 1, "Literal")
      ELSE IF IsOneOf(t, "Keyword", {"true", "false", "empty"})
        THEN R(i + 1, "Literal")
      ELSE IF t.type = "Identifier"
        THEN IF Is(peek(toks, i + 1), "Punctuation", "(")
               THEN LET args == IF Is(peek(toks, i + 2), "Punctuation", ")")
                                  THEN R(i + 2, "args")
                                  ELSE argsFrom(toks, i + 2)
                        close == Then(args, LAMBDA j :
                                   expect(toks, j, "Punctuation", ")"))
                    IN  IF close.ok THEN R(close.i, "Call") ELSE Fail
               ELSE R(i + 1, "Identifier")
      ELSE IF Is(t, "Punctuation", "(")
        THEN LET e == parseExpression(toks, i + 1)
                 close == Then(e, LAMBDA j : expect(toks, j, "Punctuation", ")"))
             IN  IF close.ok THEN R(close.i, e.kind) ELSE Fail
      ELSE Fail

\* parse(source) of parser.ts returns instead of throwing
RDAccepts(toks) == parseProgram(toks).ok

(***************************************************************************)
(* Reference: derivability by leftmost derivation                          *)
(***************************************************************************)
AllMapped(toks) == \A k \in 1..Len(toks) : tokenToTerminal(toks[k]).ok

\* the terminal string of a token array
Terminals(toks) == [k \in 1..Len(toks) |-> tokenToTerminal(toks[k]).terminal]

\* the string a production body stands for: an EPSILON body is the empty string
BodyString(k) == SelectSeq(PRODUCTIONS[k].body, LAMBDA sym : sym # EPSILON)

\* From the sentential form w[1..i-1] . form, with form still to be derived,
\* some sequence of leftmost derivation steps (any production of the leftmost
\* non-terminal, chosen freely) reaches the terminal string w.
RECURSIVE LeftmostDerives(_, _, _)
LeftmostDerives(form, w, i) ==
  IF form = <<>> THEN i = Len(w) + 1
  ELSE IF Head(form) \in TERMINALS
    THEN /\ i <= Len(w)
         /\ w[i] = Head(form)
         /\ LeftmostDerives(Tail(form), w, i + 1)
  ELSE \E k \in 1..NumProds :
         /\ PRODUCTIONS[k].head = Head(form)
         /\ LeftmostDerives(BodyString(k) \o Tail(form), w, i)

Derivable(w) == LeftmostDerives(<<START_SYMBOL>>, w, 1)

Done == status \in {"accepted", "error"}

(***************************************************************************)
(* C1: for every token array whose tokens all map to grammar terminals     *)
(* (a terminal string ending in a single '$'), the run of LL1Parser.parse  *)
(* ends in acceptance if and only if the terminal string is derivable from *)
(* Program by a leftmost derivation.                                       *)
(***************************************************************************)
AcceptsIffDerivable ==
  (Done /\ AllMapped(tokens)) =>
     ((status = "accepted") <=> Derivable(Terminals(tokens)))

\* an accepted program with a dangling else, and so with two derivations
DanglingElseAccepted ==
  /\ status = "accepted"
  /\ Len(tokens) = 18
  /\ tokens[5].lexeme = "if"
  /\ tokens[13].lexeme = "else"

(***************************************************************************)
(* C2: the table-driven parser accepts a token array if and only if the    *)
(* recursive-descent parser accepts it.                                    *)
(***************************************************************************)
SameVerdictAsRecursiveDescent ==
  Done => ((status = "accepted") <=> RDAccepts(tokens))

(***************************************************************************)
(* Shorthands for the step the parser is about to take                     *)
(***************************************************************************)
Running == status = "running" /\ stack # <<>>
LookaheadTerminal == tokenToTerminal(lookahead).terminal
AtTerminal == Running /\ tokenToTerminal(lookahead).ok /\ Top(stack) \in TERMINALS
AtNonTerminal ==
  Running /\ tokenToTerminal(lookahead).ok /\ Top(stack) \in NON_TERMINALS
ErrorAt(t) == status = "error" /\ err.line = t.line /\ err.column = t.column
\* the step ends the run with an error positioned at token t
FailsAt(t) == status' = "error" /\ err'.line = t.line /\ err'.column = t.column
EOFToken == tokens[Len(tokens)]
Reverse(seq) == [k \in 1..Len(seq) |-> seq[Len(seq) + 1 - k]]

PutX5 == Tokenize(<<"put", "x", "=", "5">>)

(***************************************************************************)
(* C3 as stated: on `put x = 5` the run fails at the position of the EOF   *)
(* token with an error that names SEMICOLON as the expected symbol.        *)
(***************************************************************************)
MissingSemicolonNamesSEMICOLON ==
  (tokens = PutX5 /\ Done) =>
     /\ ErrorAt(EOFToken)
     /\ err.kind = "esperado terminal"
     /\ err.X = "SEMICOLON"

(***************************************************************************)
(* C3 amended: on `put x = 5` the run fails at the position of the EOF     *)
(* token with the error "no production for the pair (MulExprTail, $)".     *)
(***************************************************************************)
MissingSemicolonNoProduction ==
  (tokens = PutX5 /\ Done) =>
     /\ ErrorAt(EOFToken)
     /\ err.kind = "nao existe producao"
     /\ err.X = "MulExprTail"
     /\ err.a = "$"

PutX5Failed == tokens = PutX5 /\ status = "error" /\ index = 4

(***************************************************************************)
(* C4 as stated: when the popped symbol X is a terminal equal to the       *)
(* lookahead terminal, the cursor advances to the next token and the run   *)
(* continues; otherwise the run fails naming X and a at the lookahead.     *)
(***************************************************************************)
TerminalStepAdvances ==
  [][AtTerminal =>
       IF Top(stack) = LookaheadTerminal
         THEN index' = index + 1 /\ status' = "running"
         ELSE /\ FailsAt(lookahead)
              /\ err'.kind = "esperado terminal"
              /\ err'.X = Top(stack)
              /\ err'.a = LookaheadTerminal]_vars

(***************************************************************************)
(* C4 amended: when the popped symbol X is a terminal equal to the         *)
(* lookahead terminal, the cursor advances by one token unless it is       *)
(* already past the last token (then it stays, and the lookahead remains   *)
(* the EOF token), and the run continues; otherwise the run fails with an  *)
(* error naming X as expected and a as found at the lookahead's position,  *)
(* and no step follows an error.                                           *)
(***************************************************************************)
TerminalStep ==
  /\ [][AtTerminal =>
          IF Top(stack) = LookaheadTerminal
            THEN /\ index' = IF index < Len(tokens) THEN index + 1 ELSE index
                 /\ lookahead' = tokens[IF index' < Len(tokens)
                                          THEN index' + 1 ELSE Len(tokens)]
                 /\ stack' = Pop(stack)
                 /\ status' = "running"
            ELSE /\ FailsAt(lookahead)
                 /\ err'.kind = "esperado terminal"
                 /\ err'.X = Top(stack)
                 /\ err'.a = LookaheadTerminal
                 /\ index' = index]_vars
  /\ [][status # "error"]_vars

MismatchAfterMatches ==
  status = "error" /\ err.kind = "esperado terminal" /\ index >= 2

(***************************************************************************)
(* C5: when the popped symbol X is a non-terminal and a the lookahead      *)
(* terminal: without a cell table[X, a] the run fails with the error for   *)
(* the pair (X, a) at the lookahead's position; with one, the body of the  *)
(* production is pushed in reverse, so that its leftmost symbol is on top, *)
(* and the cursor and the lookahead do not change.                         *)
(***************************************************************************)
NonTerminalStep ==
  [][AtNonTerminal =>
       LET X == Top(stack)
           a == LookaheadTerminal
       IN  IF a \notin DOMAIN table[X]
             THEN /\ FailsAt(lookahead)
                  /\ err'.kind = "nao existe producao"
                  /\ err'.X = X
                  /\ err'.a = a
             ELSE LET body == BodyString(table[X][a])
                  IN  /\ PRODUCTIONS[table[X][a]].head = X
                      /\ stack' = Pop(stack) \o Reverse(body)
                      /\ body # <<>> => Top(stack') = body[1]
                      /\ index' = index
                      /\ lookahead' = lookahead
                      /\ status' = "running"]_vars

\* IfStmt has just been expanded: its six body symbols are on the stack,
\* KW_if on top
IfStmtExpanded ==
  /\ status = "running"
  /\ Len(stack) >= 6
  /\ SubSeq(stack, Len(stack) - 5, Len(stack))
       = <<"IfElseOpt", "Stmt", "RPAREN", "Expr", "LPAREN", "KW_if">>

(***************************************************************************)
(* C6: the run starts with stack [$, Program] and the cursor at the first  *)
(* token; the loop is left exactly when the stack is empty; the run        *)
(* accepts only if the lookahead then maps to '$' and otherwise fails with *)
(* the "input not fully consumed" error.                                   *)
(***************************************************************************)
StartAndEndOfRun ==
  /\ stack = <<"$", "Program">> /\ index = 0 /\ lookahead = tokens[1]
  /\ status = "running"
  /\ [][(status = "running" /\ stack # <<>>) => status' # "accepted"]_vars
  /\ [][(status = "running" /\ stack = <<>>) =>
          IF tokenToTerminal(lookahead) = Mapped("$")
            THEN status' = "accepted"
            ELSE status' = "error" /\ err'.kind \in {"entrada nao consumida", "unmapped"}]_vars
  /\ [](status = "accepted" =>
          stack = <<>> /\ tokenToTerminal(lookahead) = Mapped("$"))

RecipeAccepted == status = "accepted" /\ Len(tokens) = 20

(***************************************************************************)
(* FIRST of a symbol string, from the FIRST table, by the rule of the      *)
(* specification: the i-th symbol contributes when all before it can       *)
(* derive EPSILON.                                                         *)
(***************************************************************************)
Nullable(f, body, n) == \A j \in 1..n : EPSILON \in FirstGet(f, body[j])

FirstOfString(f, body) ==
  { x \in UNION { FirstGet(f, body[i]) : i \in 1..Len(body) } :
      /\ x # EPSILON
      /\ \E i \in 1..Len(body) :
           x \in FirstGet(f, body[i]) /\ Nullable(f, body, i - 1) }
  \cup (IF Nullable(f, body, Len(body)) THEN {EPSILON} ELSE {})

(***************************************************************************)
(* C7: in the built table, table[A, t] is the earliest-declared production *)
(* A -> body with t in FIRST(body) \ {EPSILON}, or with EPSILON in         *)
(* FIRST(body) and t in FOLLOW(A); the cell is absent when none qualifies; *)
(* and a cell, once set, is never changed.                                 *)
(***************************************************************************)
Qualifies(k, A, t) ==
  /\ PRODUCTIONS[k].head = A
  /\ LET fb == FirstOfString(first, PRODUCTIONS[k].body)
     IN  \/ t \in fb \ {EPSILON}
         \/ EPSILON \in fb /\ t \in follow[A]

TableIsFirstQualifying ==
  /\ [](gpc = "built" =>
          \A A \in NON_TERMINALS, t \in TERMINALS :
             LET Q == { k \in 1..NumProds : Qualifies(k, A, t) }
             IN  IF Q = {} THEN t \notin DOMAIN table[A]
                 ELSE /\ t \in DOMAIN table[A]
                      /\ table[A][t] \in Q
                      /\ \A k \in Q : table[A][t] <= k)
  /\ [][\A A \in DOMAIN table : \A t \in DOMAIN table[A] :
          t \in DOMAIN table'[A] /\ table'[A][t] = table[A][t]]_vars

\* the contested cell holds the earlier production IfElseOpt -> KW_else Stmt
TableBuiltWithConflict ==
  /\ gpc = "built"
  /\ PRODUCTIONS[table["IfElseOpt"]["KW_else"]].body = <<"KW_else", "Stmt">>
  /\ "KW_else" \in follow["IfElseOpt"]

(***************************************************************************)
(* C8: the table computeFirstSets returns has FIRST(t) = {t} for every     *)
(* terminal t, FIRST(EPSILON) = {EPSILON}, and for every production        *)
(* head -> s1 ... sn, FIRST(head) contains FIRST(si) \ {EPSILON} for every *)
(* i with EPSILON in FIRST(sj) for all j < i, and EPSILON when EPSILON is  *)
(* in FIRST(si) for all i.                                                 *)
(***************************************************************************)
FirstReturned == gpc \in {"follow", "table", "built"}

FirstIsClosed ==
  FirstReturned =>
    /\ \A t \in TERMINALS : first[t] = {t}
    /\ first[EPSILON] = {EPSILON}
    /\ \A k \in 1..NumProds :
         LET head == PRODUCTIONS[k].head
             body == PRODUCTIONS[k].body
         IN  /\ \A i \in 1..Len(body) :
                  Nullable(first, body, i - 1) =>
                    (first[body[i]] \ {EPSILON}) \subseteq first[head]
             /\ Nullable(first, body, Len(body)) => EPSILON \in first[head]

\* FIRST(Program) holds '$', reached through the nullable StmtList
FirstThroughNullable ==
  /\ FirstReturned
  /\ EPSILON \in first["StmtList"]
  /\ "$" \in first["Program"]

(***************************************************************************)
(* C9: the table computeFollowSets returns has '$' in FOLLOW(Program), and *)
(* for every production head -> alpha B beta with B a non-terminal,        *)
(* FIRST(beta) \ {EPSILON} is a subset of FOLLOW(B), and FOLLOW(head) is a *)
(* subset of FOLLOW(B) when beta is empty or EPSILON is in FIRST(beta).    *)
(***************************************************************************)
FollowReturned == gpc \in {"table", "built"}

FollowIsClosed ==
  FollowReturned =>
    /\ "$" \in follow["Program"]
    /\ \A k \in 1..NumProds :
         LET head == PRODUCTIONS[k].head
             body == PRODUCTIONS[k].body
         IN  \A i \in 1..Len(body) :
               body[i] \in NON_TERMINALS =>
                 LET fb == FirstOfString(first, SubSeq(body, i + 1, Len(body)))
                 IN  /\ (fb \ {EPSILON}) \subseteq follow[body[i]]
                     /\ (i = Len(body) \/ EPSILON \in fb) =>
                          follow[head] \subseteq follow[body[i]]

\* FOLLOW(Stmt) inherits FOLLOW(IfStmt)'s KW_else through a nullable tail
FollowThroughNullable ==
  /\ FollowReturned
  /\ "KW_else" \in follow["IfElseOpt"]
  /\ "$" \in follow["StmtList"]
  /\ "SEMICOLON" \in follow["CallTail"]

(***************************************************************************)
(* C10: tokenToTerminal maps a token to a member of TERMINALS or to an     *)
(* error; an EOF token maps to '$'; a token without a grammar terminal     *)
(* (keywords do and for, punctuation [ ] ., operators ++ --, an unknown    *)
(* character) gives an error with the token's line, column and lexeme.     *)
(***************************************************************************)
NoGrammarTerminal(t) ==
  \/ IsOneOf(t, "Keyword", {"do", "for"})
  \/ IsOneOf(t, "Punctuation", {"[", "]", "."})
  \/ IsOneOf(t, "Operator", {"++", "--", "@"})

MapperTotalOrError ==
  \A k \in 1..Len(tokens) :
    LET t == tokens[k]
        r == tokenToTerminal(t)
    IN  /\ r.ok => r.terminal \in TERMINALS
        /\ t.type = "EOF" => r = Mapped("$")
        /\ NoGrammarTerminal(t) <=> ~r.ok
        /\ ~r.ok => r.line = t.line /\ r.column = t.column /\ r.lexeme = t.lexeme
        /\ (lookahead = t /\ status = "error" /\ err.kind = "unmapped") =>
             err.line = t.line /\ err.column = t.column /\ err.lexeme = t.lexeme

UnmappedKeywordReported ==
  /\ status = "error"
  /\ err.kind = "unmapped"
  /\ err.lexeme = "for"
  /\ index = 1

(***************************************************************************)
(* The programs of the concrete scenarios, as token arrays                 *)
(***************************************************************************)
EmptyProgram == Tokenize(<<>>)

IfElseProgram ==
  Tokenize(<<"if", "(", "x", ")", "{", "return", "x", ";", "}", "else", "{",
             "return", "0", ";", "}">>)

RecipeSoma ==
  Tokenize(<<"recipe", "soma", "(", "a", ",", "b", ")", "{", "put", "s", "=",
             "a", "+", "b", ";", "return", "s", ";", "}">>)

(***************************************************************************)
(* C11: the empty input (the EOF token alone) is accepted; the cell        *)
(* table[StmtList, '$'] holds the production StmtList -> EPSILON, and it   *)
(* is there because '$' is in FOLLOW(StmtList): EPSILON is in FIRST of the *)
(* body and '$' is not.                                                    *)
(***************************************************************************)
EmptyInputAccepted ==
  /\ (tokens = EmptyProgram /\ Done) => status = "accepted"
  /\ "$" \in DOMAIN table["StmtList"]
  /\ PRODUCTIONS[table["StmtList"]["$"]] = P("StmtList", <<EPSILON>>)
  /\ "$" \in follow["StmtList"]
  /\ LET firstBody == SeqFirst(first, PRODUCTIONS[table["StmtList"]["$"]].body)
     IN  EPSILON \in firstBody /\ "$" \notin firstBody

EmptyProgramAccepted ==
  tokens = EmptyProgram /\ status = "accepted" /\ stack = <<>>

(***************************************************************************)
(* C12: `if (x) { return x; } else { return 0; }` is accepted; the cell    *)
(* table[IfElseOpt, KW_else] holds IfElseOpt -> KW_else Stmt although      *)
(* KW_else is in FOLLOW(IfElseOpt); and every expansion of IfElseOpt with  *)
(* lookahead KW_else replaces the IfElseOpt on top of the stack, the one   *)
(* of the innermost open if, by KW_else Stmt and leaves the rest of the    *)
(* stack, the outer ifs included, as it was.                               *)
(***************************************************************************)
ElseBindsToInnermostIf ==
  /\ [](/\ (tokens = IfElseProgram /\ Done) => status = "accepted"
        /\ "KW_else" \in DOMAIN table["IfElseOpt"]
        /\ PRODUCTIONS[table["IfElseOpt"]["KW_else"]]
             = P("IfElseOpt", <<"KW_else", "Stmt">>)
        /\ "KW_else" \in follow["IfElseOpt"])
  /\ [][(AtNonTerminal /\ Top(stack) = "IfElseOpt"
                       /\ LookaheadTerminal = "KW_else") =>
          /\ stack' = Pop(stack) \o <<"Stmt", "KW_else">>
          /\ status' = "running"]_vars

IfElseProgramAccepted ==
  tokens = IfElseProgram /\ status = "accepted" /\ index = 16

LegacyWordAt(src, a, b) ==
  /\ Join(SubSeq(src, a, b)) \in FORBIDDEN_IDENTIFIERS
  /\ b < Len(src) => ~isIdentifierPart(src[b + 1])
  /\ \A j \in 1..(a - 1) :
       (\A m \in j..(a - 1) : isIdentifierPart(src[m])) => isDigit(src[j])
  /\ \A j \in 1..(a - 1) : src[j] \notin {"\"", "'", "/"}

ContainsLegacyIdentifier(src) ==
  \E a \in 1..Len(src) : \E b \in a..Len(src) : LegacyWordAt(src, a, b)

LexicalErrorRaised == status = "error" /\ err.kind = "lexical"

EnginesReturnFixedPoints ==
  /\ FirstReturned =>
       /\ \A k \in 1..NumProds : FirstApply(first, PRODUCTIONS[k]) = first
       /\ FirstPass(first, FALSE, 1) = [first |-> first, changed |-> FALSE]
       /\ computeFirstSets = first
  /\ FollowReturned =>
       /\ \A k \in 1..NumProds : FollowApply(follow, first, PRODUCTIONS[k]) = follow
       /\ FollowPass(follow, first, FALSE, 1) = [follow |-> follow, changed |-> FALSE]
       /\ computeFollowSets(first) = follow

\* both engines have returned, FIRST and FOLLOW of the deepest expression
\* level filled in
BothEnginesReturned ==
  /\ gpc = "table"
  /\ pidx = 1
  /\ "LPAREN" \in first["Expr"]
  /\ "OP_STAR" \in follow["UnaryExpr"]

(***************************************************************************)
(* Reference: some leftmost derivation from the sentential form reaches a  *)
(* sentential form that begins with the terminal t.                        *)
(***************************************************************************)
RECURSIVE DerivesFormBeginningWith(_, _)
DerivesFormBeginningWith(form, t) ==
  IF form = <<>> THEN FALSE
  ELSE IF Head(form) \in TERMINALS THEN Head(form) = t
  ELSE \E k \in 1..NumProds :
         /\ PRODUCTIONS[k].head = Head(form)
         /\ DerivesFormBeginningWith(BodyString(k) \o Tail(form), t)

(***************************************************************************)
(* C16: FIRST is sound.  For every production head -> body and every       *)
(* element t other than EPSILON of FIRST(body), computed by the            *)
(* per-production rule from the returned FIRST table, t is a terminal and  *)
(* a leftmost derivation from head that starts with this production        *)
(* reaches a sentential form beginning with t.                             *)
(***************************************************************************)
FirstIsSound ==
  FirstReturned =>
    \A k \in 1..NumProds :
      \A t \in SeqFirst(first, PRODUCTIONS[k].body) \ {EPSILON} :
        /\ t \in TERMINALS
        /\ DerivesFormBeginningWith(BodyString(k), t)

\* FIRST of the body of Stmt -> IfStmt, reached through a chain of heads
FirstOfStmtBodies ==
  /\ FirstReturned
  /\ SeqFirst(first, <<"IfStmt">>) = {"KW_if"}
  /\ SeqFirst(first, <<"StmtList", "$">>)
       = { "KW_put", "KW_take", "KW_recipe", "KW_if", "KW_meanwhile",
           "KW_return", "LBRACE", "ID", "$" }

(***************************************************************************)
(* C17: every run of parse on a token array that ends in the EOF token     *)
(* terminates: it reaches acceptance or a reported error.                  *)
(***************************************************************************)
ParseTerminates ==
  (tokens # <<>> /\ EOFToken.type = "EOF") => <>Done

\* a run that pushed more symbols than it has tokens, and ended
LongRunEnded ==
  /\ Done
  /\ Len(tokens) >= 18
  /\ index >= 17

(***************************************************************************)
(* C18: in the FIRST and FOLLOW iterations no set ever loses an element;   *)
(* within a pass `changed` becomes true exactly at a step in which some    *)
(* set gains an element, and is false again when the next pass starts; a   *)
(* loop is left exactly at the end of a pass that changed nothing, and     *)
(* both loops are left: the table gets built, without an error.            *)
(***************************************************************************)
Grows(old, new) == \A s \in DOMAIN old : s \in DOMAIN new /\ old[s] \subseteq new[s]
Gains(old, new) == \E s \in DOMAIN old : new[s] \ old[s] # {}
InPass == gpc \in {"first", "follow"} /\ pidx <= NumProds
AtPassEnd == gpc \in {"first", "follow"} /\ pidx > NumProds

EnginesGrowAndTerminate ==
  /\ [][Grows(first, first') /\ Grows(follow, follow')]_vars
  /\ [][(InPass /\ gpc = "first") =>
          changed' = (changed \/ Gains(first, first'))]_vars
  /\ [][(InPass /\ gpc = "follow") =>
          changed' = (changed \/ Gains(follow, follow'))]_vars
  /\ [][AtPassEnd => (changed' = FALSE /\ pidx' = 1)]_vars
  /\ [][AtPassEnd => ((gpc' # gpc) <=> ~changed)]_vars
  /\ [][gpc' # gpc => (AtPassEnd \/ gpc = "table")]_vars
  /\ [](status # "error")
  /\ <>(gpc = "built")

\* in the middle of a pass of the FOLLOW loop that has already added
\* something
FollowPassHasChanged ==
  /\ gpc = "follow"
  /\ changed
  /\ pidx > 1
  /\ pidx <= NumProds
  /\ "$" \in follow["StmtList"]

(***************************************************************************)
(* C19: the parser halts at the first error.  No step follows an error, so *)
(* the stack and the cursor stay as the error left them and the run never  *)
(* returns a result; a step at a configuration the table gives no move for *)
(* (an unmappable lookahead, a terminal that differs from it, a            *)
(* non-terminal without a cell) ends the run with an error and does not    *)
(* skip the token; and the cursor never decreases.                         *)
(***************************************************************************)
HasMove ==
  /\ tokenToTerminal(lookahead).ok
  /\ \/ Top(stack) \in TERMINALS /\ Top(stack) = LookaheadTerminal
     \/ Top(stack) \in NON_TERMINALS /\ LookaheadTerminal \in DOMAIN table[Top(stack)]

HaltsAtFirstError ==
  /\ [][status # "error"]_vars
  /\ [][status' = "accepted" => status = "running"]_vars
  /\ [][(Running /\ ~HasMove) =>
          /\ status' = "error"
          /\ err' # NoError
          /\ index' = index
          /\ lookahead' = lookahead]_vars
  /\ [][index' >= index]_vars

\* a run stopped by an error in the middle of the input, tokens left unread
StoppedInTheMiddle ==
  /\ status = "error"
  /\ index >= 3
  /\ index + 3 <= Len(tokens)
  /\ stack # <<>>

(***************************************************************************)
(* C20 as stated: the cursor changes only in a step that matches a         *)
(* terminal, every such step moves it to the next token, and expansions    *)
(* and failing steps leave the cursor and the lookahead unchanged.         *)
(***************************************************************************)
Matching == AtTerminal /\ Top(stack) = LookaheadTerminal

CursorMovesOnEveryMatch ==
  /\ [][index' # index => Matching]_vars
  /\ [][Matching => index' = index + 1]_vars
  /\ [][(Running /\ ~Matching) =>
          (index' = index /\ lookahead' = lookahead)]_vars

(***************************************************************************)
(* C20 amended: the cursor changes only in a step that matches a terminal; *)
(* such a step moves it to the next token, except that a match with the    *)
(* cursor already past the last token (the second match of '$') leaves it  *)
(* where it is, the lookahead being the EOF token before and after; and    *)
(* expansions and failing steps leave the cursor and the lookahead         *)
(* unchanged.                                                              *)
(***************************************************************************)
CursorMovesOnlyOnMatch ==
  /\ [][index' # index => Matching]_vars
  /\ [][Matching =>
          IF index < Len(tokens)
            THEN /\ index' = index + 1
                 /\ lookahead' = IF index' < Len(tokens) THEN tokens[index' + 1]
                                                         ELSE EOFToken
            ELSE /\ index' = index
                 /\ lookahead = EOFToken
                 /\ lookahead' = EOFToken]_vars
  /\ [][(Running /\ ~Matching) =>
          (index' = index /\ lookahead' = lookahead)]_vars

\* between the two matches of '$': the cursor is past the last token
CursorPastLastToken ==
  /\ status = "running"
  /\ stack = <<"$">>
  /\ index = Len(tokens)
  /\ Len(tokens) >= 5

(***************************************************************************)
(* C23: the table-driven parser accepts a statement that is an expression  *)
(* followed by a semicolon (`1;`, `x;`, `f(1, x);`), as the grammar header *)
(* documents with Stmt -> ExprStmt and ExprStmt -> Expr SEMICOLON.         *)
(***************************************************************************)
ExprStmtAccepted ==
  LET primaries == {"x", "1", "'s'", "true", "false", "null"}
      programs  == { Tokenize(<<e, ";">>) : e \in primaries }
                     \cup { Tokenize(<<"f", "(", "1", ",", "x", ")", ";">>) }
  IN  (Done /\ tokens \in programs) => status = "accepted"

(***************************************************************************)
(* C24: the failure 'input not fully consumed' never happens. While the    *)
(* loop runs, the bottom symbol of the stack is '$'; the step that empties *)
(* the stack is a match of '$' against the EOF token, so that whenever the *)
(* loop is left with an empty stack the lookahead is the EOF token and the *)
(* run ends in acceptance.                                                 *)
(***************************************************************************)
NotConsumedUnreachable ==
  /\ [](status = "error" => err.kind # "entrada nao consumida")
  /\ [](Running => stack[1] = "$")
  /\ []((status = "running" /\ stack = <<>>) =>
          (lookahead = EOFToken /\ tokenToTerminal(lookahead) = Mapped("$")))
  /\ [][(Running /\ stack' = <<>> /\ status' = "running") =>
          (Matching /\ stack = <<"$">> /\ LookaheadTerminal = "$")]_vars
  /\ [][(status = "running" /\ stack = <<>>) => status' = "accepted"]_vars

\* the loop has been left: the stack is empty and the final test is next
LoopLeftAtEOF ==
  /\ status = "running"
  /\ stack = <<>>
  /\ lookahead.type = "EOF"
  /\ Len(tokens) >= 4

(***************************************************************************)
(* C25: the cursor never exceeds the number of tokens; once the EOF token  *)
(* has been matched the lookahead stays the EOF token; '$' is matched      *)
(* twice in every accepting run, first from the body of Program -> StmtList*)
(* $ with the cursor on the EOF token and then from the bottom of the      *)
(* stack, and the second match does not move the cursor.                   *)
(***************************************************************************)
EndMarkerMatchedTwice ==
  /\ [](index <= Len(tokens))
  /\ [](index = Len(tokens) => lookahead = EOFToken)
  /\ [][index = Len(tokens) => index' = index]_vars
  /\ [][(Matching /\ Top(stack) = "$") =>
          IF stack = <<"$", "$">>
            THEN /\ index = Len(tokens) - 1
                 /\ index' = Len(tokens)
                 /\ lookahead' = EOFToken
            ELSE /\ stack = <<"$">>
                 /\ index = Len(tokens)
                 /\ index' = index
                 /\ lookahead' = lookahead]_vars
  /\ [](status = "accepted" => (index = Len(tokens) /\ stack = <<>>))

\* an accepting run of the `meanwhile` program, both matches of '$' done
AcceptedPastLastToken ==
  /\ status = "accepted"
  /\ index = Len(tokens)
  /\ Len(tokens) = 13
  /\ tokens[1].lexeme = "meanwhile"

(***************************************************************************)
(* C29: the stack holds only declared terminals and non-terminals; the     *)
(* Empty marker is never pushed, so the branch of the loop for a popped    *)
(* Empty marker is never taken; and every non-terminal that is popped has  *)
(* a row in the table, so the 'no row' failure never happens.              *)
(***************************************************************************)
StackHoldsGrammarSymbols ==
  /\ [](\A i \in 1..Len(stack) : stack[i] \in TERMINALS \cup NON_TERMINALS)
  /\ [](\A i \in 1..Len(stack) : stack[i] # EPSILON)
  /\ [](Running => (Top(stack) \in NON_TERMINALS => Top(stack) \in DOMAIN table))
  /\ [](status = "error" => err.kind # "nao existe linha")
  /\ [][(Running /\ AtNonTerminal /\ status' = "running") =>
          LET body == PRODUCTIONS[table[Top(stack)][LookaheadTerminal]].body
          IN  Len(stack') = Len(stack) - 1
                + Cardinality({ j \in 1..Len(body) : body[j] # EPSILON })]_vars

\* `{ }`: StmtList -> Empty has just been expanded inside the block, nothing
\* was pushed and '}' is on top of the stack
EmptyBodyExpanded ==
  /\ tokens = Tokenize(<<"{", "}">>)
  /\ status = "running"
  /\ index = 1
  /\ Top(stack) = "RBRACE"

(***************************************************************************)
(* C28: tokens are mapped to terminals on demand. With an unmappable token *)
(* at position k, the run ends with the mapping error of that token if and *)
(* only if the cursor reached it, every earlier token having been matched; *)
(* a run that fails at an earlier token reports the error of that earlier  *)
(* token, and the cursor never passes the unmappable token.                *)
(***************************************************************************)
MappingOnDemand ==
  \A k \in 1..Len(tokens) :
    ~tokenToTerminal(tokens[k]).ok =>
      /\ index <= k - 1
      /\ \E j \in 1..k : lookahead = tokens[j]
      /\ status # "accepted"
      /\ Done =>
           ((/\ err.kind = "unmapped"
             /\ err.line = tokens[k].line
             /\ err.column = tokens[k].column
             /\ err.lexeme = tokens[k].lexeme) <=> index = k - 1)
      /\ (Done /\ index < k - 1) =>
           /\ err.kind = IF tokenToTerminal(tokens[index + 1]).ok
                           THEN IF err.X \in TERMINALS
                                  THEN "esperado terminal"
                                  ELSE "nao existe producao"
                           ELSE "unmapped"
           /\ err.line = tokens[index + 1].line
           /\ err.column = tokens[index + 1].column

\* the mapping error of a token that follows matched tokens
UnmappableAfterMatches ==
  /\ status = "error"
  /\ err.kind = "unmapped"
  /\ index >= 3

(***************************************************************************)
(* C26: (IfElseOpt, KW_else) is the only cell of the table for which a     *)
(* second production competes: two productions qualify for that cell, at   *)
(* most one qualifies for any other cell, and during the build the only    *)
(* production that finds one of its cells already set is IfElseOpt ->      *)
(* Empty, for the token KW_else.                                           *)
(***************************************************************************)
OnlyDanglingElseConflict ==
  /\ [](gpc = "built" =>
          \A A \in NON_TERMINALS, t \in TERMINALS :
             LET Q == { k \in 1..NumProds : Qualifies(k, A, t) }
             IN  IF A = "IfElseOpt" /\ t = "KW_else"
                   THEN /\ Cardinality(Q) = 2
                        /\ \E k \in Q : PRODUCTIONS[k].body = <<"KW_else", "Stmt">>
                        /\ \E k \in Q : PRODUCTIONS[k].body = <<EPSILON>>
                   ELSE Cardinality(Q) <= 1)
  /\ [][(gpc = "table" /\ pidx <= NumProds) =>
          LET A    == PRODUCTIONS[pidx].head
              lost == { t \in DOMAIN table[A] : Qualifies(pidx, A, t) }
          IN  /\ lost = IF PRODUCTIONS[pidx] = P("IfElseOpt", <<EPSILON>>)
                          THEN {"KW_else"} ELSE {}
              /\ \A t \in lost : table'[A][t] = table[A][t]]_vars

\* IfElseOpt -> Empty has just been processed and its claim on KW_else lost
CompetingProductionDropped ==
  /\ gpc = "table"
  /\ pidx >= 2
  /\ PRODUCTIONS[pidx - 1] = P("IfElseOpt", <<EPSILON>>)
  /\ PRODUCTIONS[table["IfElseOpt"]["KW_else"]].body = <<"KW_else", "Stmt">>
  /\ "KW_else" \in follow["IfElseOpt"]

(***************************************************************************)
(* C22: the token array tokenize returns is finite and ends with exactly   *)
(* one EOF token, no other token having the class EOF; every call of       *)
(* nextToken either consumes at least one character of the input or        *)
(* returns EOF, and it returns EOF only with the whole input consumed.     *)
(***************************************************************************)
TokenizeEndsWithOneEOF ==
  /\ [](status = "lexing" => \A k \in 1..Len(tokens) : tokens[k].type # "EOF")
  /\ []((status # "lexing" /\ err.kind # "lexical") =>
          /\ tokens # <<>>
          /\ \A k \in 1..Len(tokens) :
               tokens[k].type = "EOF" <=> k = Len(tokens))
  /\ [](Len(tokens) <= Len(lexer.src) + 1)
  /\ [][status = "lexing" =>
          \/ lexer'.i > lexer.i
          \/ /\ nextToken(lexer).ok
             /\ nextToken(lexer).token.type = "EOF"
             /\ status' = "lexed"]_vars
  /\ [][(status = "lexing" /\ status' = "lexed") =>
          /\ tokens' = Append(tokens, nextToken(lexer).token)
          /\ tokens'[Len(tokens')].type = "EOF"
          /\ lexer'.i >= Len(lexer.src)]_vars

\* tokenize has returned three tokens and the EOF token
TokenizeReturned ==
  /\ status = "lexed"
  /\ Len(tokens) = 4
  /\ lexer.i >= Len(lexer.src)

(***************************************************************************)
(* C27: the verdict of a run depends only on the sequence of terminals the *)
(* tokens map to. A token array and the array of the canonical tokens of   *)
(* its terminals (one spelling for each terminal: '==' for '===', '!=' for *)
(* '!==', one identifier, one number, one string, no position) are both    *)
(* accepted, or both rejected at the same token index with the same stack  *)
(* symbol and the same stack left; so any two arrays with the same image   *)
(* get the same verdict.                                                   *)
(***************************************************************************)
Canonical(t) ==
  LET lexeme == IF t.type = "Identifier" THEN "id"
                ELSE IF t.type = "Number" THEN "0"
                ELSE IF t.type = "String" THEN "''"
                ELSE IF t.type = "Operator" /\ t.lexeme = "===" THEN "=="
                ELSE IF t.type = "Operator" /\ t.lexeme = "!==" THEN "!="
                ELSE t.lexeme
  IN  Token(t.type, lexeme, 0, 0)

SameImage(t, u) ==
  /\ tokenToTerminal(t).ok = tokenToTerminal(u).ok
  /\ tokenToTerminal(t).ok => tokenToTerminal(t).terminal = tokenToTerminal(u).terminal

\* what a finished run shows: the verdict, the cursor, the stack left and,
\* of a syntax error, the stack symbol and the terminal it names
Verdict(r) ==
  <<r.status, r.index, r.stack, r.err.kind,
    IF r.err.kind \in {"esperado terminal", "nao existe producao"}
      THEN <<r.err.X, r.err.a>> ELSE <<>> >>

VerdictDependsOnTerminals ==
  Done =>
    LET canon == [k \in 1..Len(tokens) |-> Canonical(tokens[k])]
    IN  /\ \A k \in 1..Len(tokens) : SameImage(tokens[k], canon[k])
        /\ \A j, k \in 1..Len(tokens) :
             SameImage(tokens[j], tokens[k]) =>
                (canon[j] = canon[k] \/ ~tokenToTerminal(tokens[j]).ok)
        /\ Verdict(parse(canon, table))
             = Verdict([status |-> status, index |-> index, stack |-> stack,
                        err |-> err])

\* an accepted program spelled with a strict comparison operator
StrictOperatorAccepted ==
  /\ status = "accepted"
  /\ \E k \in 1..Len(tokens) : tokens[k].lexeme \in {"===", "!=="}
  /\ \E k \in 1..Len(tokens) : tokens[k].type = "Identifier"

(***************************************************************************)
(* Several LL1Parser objects constructed on one table, their iterations    *)
(* interleaved in any order                                                *)
(***************************************************************************)
\* number of parser objects that share the table
NumRuns == 2

\* the programs the objects parse: accepted ones, one that stops at an
\* unexpected terminal, one without a production, one with an unmappable
\* token
SharedSources ==
  { <<>>,
    <<"{", "}">>,
    <<"x", "=", "1", ";">>,
    <<"put", "x", "x">>,
    <<"1", ";">>,
    <<"x", "=", "@", ";">> }

\* a write of one object's fields that also sets the cursor of the others
StoreRunSharedCursor(rs, p, r) ==
  [q \in DOMAIN rs |-> IF q = p THEN r ELSE [rs[q] EXCEPT !.index = r.index]]

\* the fields and locals parse writes belong to the object: `this.index`,
\* and `stack` and `lookahead` of the call
StoreRun(rs, p, r) == [rs EXCEPT ![p] = r]

InitShared ==
  /\ gpc = "built"
  /\ pidx = NumProds + 1
  /\ changed = FALSE
  /\ first = FIRST_TABLE
  /\ follow = FOLLOW_TABLE
  /\ table = PARSE_TABLE
  /\ tokens = <<>>
  /\ index = 0
  /\ lookahead = Token("EOF", "<EOF>", 1, 1)
  /\ stack = <<>>
  /\ status = "idle"
  /\ err = NoError
  /\ lexer = NewLexer(<<>>)
  /\ runs \in [1..NumRuns -> { NewParserObject(Tokenize(lx)) : lx \in SharedSources }]

\* object p runs one iteration of its loop, or its final test
RunStep(p) ==
  /\ runs[p].status = "running"
  /\ runs' = StoreRun(runs, p, ParseStep(runs[p], table))
  /\ UNCHANGED gvars
  /\ UNCHANGED pvars
  /\ UNCHANGED lexer

NextShared == \E p \in 1..NumRuns : RunStep(p)

SpecShared == InitShared /\ [][NextShared]_vars

(***************************************************************************)
(* C21: a run of the parser modifies neither the grammar nor the FIRST,    *)
(* FOLLOW and parse tables, and each run has its own stack and cursor: a   *)
(* step of one run changes the state of no other run. Whatever the         *)
(* interleaving of the runs that share the table, each run ends with the   *)
(* verdict, the error, the cursor and the stack it ends with when it runs  *)
(* alone.                                                                  *)
(***************************************************************************)
SharedTableRunsIndependent ==
  /\ [][first' = first /\ follow' = follow /\ table' = table]_vars
  /\ [](first = FIRST_TABLE /\ follow = FOLLOW_TABLE /\ table = PARSE_TABLE)
  /\ [][\A p, q \in 1..NumRuns :
          (p # q /\ runs'[p] # runs[p]) => runs'[q] = runs[q]]_vars
  /\ [](\A p \in 1..NumRuns :
          runs[p].status # "running" =>
             runs[p] = parse(runs[p].tokens, PARSE_TABLE))

\* of the runs that share the table, one has ended accepted and another
\* has ended with an error in the middle of its input
SharedRunsEnded ==
  /\ \E p \in 1..NumRuns : runs[p].status = "accepted" /\ runs[p].index >= 4
  /\ \E p \in 1..NumRuns : runs[p].status = "error" /\ runs[p].index >= 2

====
